---- MODULE Spec2Model ----
(***************************************************************************)
(* A model of the connection lifecycle of proton-vpn-desktop-proxy:        *)
(*   - the credential cache of common/utils (unnamed/part_001),            *)
(*   - the retry backoff of the renderer's VPNClientUI (unnamed/part_000), *)
(*   - the renderer's VPNClientUI state machine (unnamed/part_000),        *)
(*   - the main process's proxy monitor (src/main/main.ts).                *)
(* Times are milliseconds, as Date.now() and setTimeout count them.        *)
(* An optional value (T | null) is a sequence of length at most one.       *)
(***************************************************************************)
EXTENDS Integers, Sequences, FiniteSets, TLC

VARIABLES
    now,                  \* Date.now()
    cachedCredentials,    \* utils: let cachedCredentials (renderer process)
    lastCredentialCheck,  \* utils: let lastCredentialCheck
    credCall,             \* the last call made on the credential cache, with its result
    backoff,              \* a retry chain walking its delays: retryConnection(n), n+1, ...
    ui,                   \* the fields of the renderer's VPNClientUI
    timers,               \* the renderer's pending setTimeout timers, in creation order
    authData,             \* the store's 'auth' entry (getAuthData)
    connectTask,          \* a connect() suspended at its await of IPC.PROXY.SET
    inFlight,             \* the timer callbacks suspended at an await, in the order they began
    obs,                  \* what the renderer has done: calls counted per handler and per episode
    main                  \* the main process: MainProcess's fields and the store's 'proxy' entry

credVars == <<cachedCredentials, lastCredentialCheck, credCall>>
uiVars == <<ui, timers, authData, connectTask, inFlight, obs>>
vars == <<now, cachedCredentials, lastCredentialCheck, credCall, backoff,
          ui, timers, authData, connectTask, inFlight, obs, main>>

Null == << >>
Some(x) == <<x>>

(***************************************************************************)
(* Bounds of the model.                                                    *)
(***************************************************************************)
\* The clock's value when the program starts (Date.now() is far from 0).
Epoch == 100000
\* The longest time a behaviour of the credential-cache specification spans.
MaxCredElapsed == 11000
\* How far the clock moves in one step of the credential-cache specification.
CredTimeStep == 500
\* The largest retry count a backoff chain is walked to.
MaxAttempt == 13
\* The longest time a behaviour of the renderer's specifications spans.
MaxUiElapsed == 32000
\* How far the renderer's clock moves when no timer's deadline comes sooner.
UiTimeStep == 10000
\* How many PROXY_CONNECTION_LOST events a behaviour of SpecRenderer receives.
MaxEvents == 1
\* How many times the connect button is clicked in a behaviour.
MaxConnects == 2
\* How many PROXY_CONNECTION_LOST events a behaviour of SpecAuthStorm receives.
MaxStormEvents == 12
\* Reports of an authentication failure heard under SpecTokenRefresh.
MaxRefreshEvents == 2
\* How many PROXY_CONNECTION_LOST events a behaviour of SpecSignals receives.
MaxSignals == 2
\* How long after Epoch the session stored at the start of SpecSession comes
\* within TOKEN_EXPIRY_MARGIN of its expiresAt.
SessionLeft == 15000

\* The clock's value when a behaviour of the main process's specification starts.
MainEpoch == 400000
\* The longest time a behaviour of the main process's specification spans.
MaxMainElapsed == 45000
\* How far the clock moves in one step of the main process's specification.
MainTimeStep == 15000
\* How many IPC calls and window events a behaviour of the main process receives.
MaxMainCalls == 2
\* How many callbacks of the health-check interval may be awaiting their check
\* at once under SpecMonitorOverlap.
MaxOverlap == 2
\* The longest time a behaviour of SpecMonitorOverlap spans.
MaxOverlapElapsed == 60000

\* Lifetimes (seconds) the directory may answer with (ProxyAuthResponse.Expire).
Lifetimes == {5, 10}
\* Credential pairs the directory may issue.
CredPairs == { [username |-> "u1", password |-> "p1"],
               [username |-> "u2", password |-> "p2"] }

(***************************************************************************)
(* common/utils: the credential cache.                                     *)
(* Each operation takes the module's state cs = [cached, lastCheck] and    *)
(* the clock t, and gives the new state with the returned value.           *)
(* issuedAt is not a field of the program: it remembers when the directory *)
(* issued the pair, so that its true expiry is known whatever the cache    *)
(* says.                                                                   *)
(***************************************************************************)
CREDENTIAL_CHECK_INTERVAL == 1000
\* CREDENTIAL_REFRESH_MARGIN = 0.1, as the divisor of Expire * 1000
CREDENTIAL_REFRESH_MARGIN_DIV == 10

cacheCredentials(cs, t, credentials) ==
    [cs EXCEPT !.cached = Some([ time     |-> t + credentials.expiresIn * 1000,
                                 halfLife |-> t + credentials.expiresIn * 500,
                                 Username |-> credentials.username,
                                 Password |-> credentials.password,
                                 Expire   |-> credentials.expiresIn,
                                 issuedAt |-> credentials.issuedAt ])]

\* credentialNextFetching is never set by any code: only the cache is dropped.
clearCredentials(cs) == [cs EXCEPT !.cached = Null]

getCachedCredentialsNoExpiry(cs, t) == [cs |-> cs, ret |-> cs.cached]

getCachedCredentials(cs, t) ==
    IF cs.cached = Null
    THEN [cs |-> cs, ret |-> Null]
    ELSE IF t >= cs.cached[1].time
         THEN [cs |-> clearCredentials(cs), ret |-> Null]
         ELSE [cs |-> cs, ret |-> cs.cached]

CheckResult(v, e, n, x) ==
    [valid |-> v, expired |-> e, needsRefresh |-> n, nearingExpiry |-> x]

\* checkCredentials once the cache is known to hold an unexpired item
checkExpiry(cs, timeUntilExpiry, refreshMargin) ==
    IF timeUntilExpiry <= 0
    THEN [cs |-> cs, ret |-> CheckResult(FALSE, TRUE, TRUE, FALSE)]
    ELSE [cs |-> cs,
          ret |-> CheckResult(TRUE, FALSE,
                              timeUntilExpiry <= refreshMargin,
                              timeUntilExpiry <= refreshMargin * 2)]

\* g: what getCachedCredentials() answered
checkCached(g, t) ==
    IF g.ret = Null
    THEN [cs |-> g.cs, ret |-> CheckResult(FALSE, TRUE, TRUE, FALSE)]
    ELSE checkExpiry(g.cs, g.ret[1].time - t,
                     (g.ret[1].Expire * 1000) \div CREDENTIAL_REFRESH_MARGIN_DIV)

checkCredentials(cs, t) ==
    IF t - cs.lastCheck < CREDENTIAL_CHECK_INTERVAL
    THEN \* rate limited: the answer is made up, the cache is not looked at
         [cs |-> cs, ret |-> CheckResult(TRUE, FALSE, FALSE, FALSE)]
    ELSE checkCached(getCachedCredentials([cs EXCEPT !.lastCheck = t], t), t)

\* c: what checkCredentials() answered
refreshNeededOf(c) == [cs |-> c.cs, ret |-> (c.ret.needsRefresh \/ c.ret.expired)]

isCredentialRefreshNeeded(cs, t) == refreshNeededOf(checkCredentials(cs, t))

\* c: what checkCredentials() answered
validCredentialsOf(c, t) ==
    IF ~c.ret.valid \/ c.ret.expired
    THEN [cs |-> c.cs, ret |-> Null]
    ELSE getCachedCredentials(c.cs, t)

getValidCredentials(cs, t) == validCredentialsOf(checkCredentials(cs, t), t)

CredStore == [cached |-> cachedCredentials, lastCheck |-> lastCredentialCheck]

(***************************************************************************)
(* VPNClientUI.getRetryDelay                                               *)
(***************************************************************************)
RECURSIVE Pow2(_)
Pow2(n) == IF n <= 0 THEN 1 ELSE 2 * Pow2(n - 1)

Min(a, b) == IF a <= b THEN a ELSE b

getRetryDelay(attempt) ==
    IF attempt = 0 THEN 500
    ELSE Min(Pow2(attempt - 1) * 2000, 12000)

(***************************************************************************)
(* The renderer: VPNClientUI (unnamed/part_000, lines 946-1752).           *)
(*                                                                         *)
(* A handler is an operator on the renderer's world                        *)
(*     w = [ui, timers, cs, auth, obs]                                     *)
(* (the object's fields, the pending timers, the credential cache, the     *)
(* stored session, the observations), given the clock t and env, the       *)
(* answers of the collaborators it awaits (the main process over IPC, the  *)
(* identity provider, the directory).  A handler that awaits runs on to    *)
(* its end with those answers; connect() alone is also suspended at its    *)
(* await of IPC.PROXY.SET (connectBegin, connectEnd).  A value a handler   *)
(* computes and then uses is handed on as an argument of the operator that *)
(* models the rest of the handler.                                         *)
(***************************************************************************)
MAX_RETRY_ATTEMPTS == 4
maxCredentialFailures == 10
CONNECTION_TIMEOUT == 30000
\* handleProxyError: if (now - this.lastRetryTime < 5000) return
RETRY_MIN_SPACING == 5000
\* handleNetworkError: setTimeout(..., 2000)
NETWORK_SETTLE_DELAY == 2000
\* isTokenExpired: 5 * 60 * 1000
TOKEN_EXPIRY_MARGIN == 300000
\* scheduleCredentialRefresh: (expiresInSeconds * 0.9) * 1000, per second
REFRESH_MS_PER_SECOND == 900
\* Seconds a session token lives (the provider's ExpiresIn).
TokenExpiresIn == 3600

\* The server list ProtonVPNAPI.getServers() answers with, in its order
\* (VPNServer: id, host, port, features); which of them are online varies.
ServerList == << [id |-> "s1", host |-> "10.1.1.1", port |-> 443,  features |-> {"p2p"}],
                 [id |-> "s2", host |-> "10.2.2.2", port |-> 8080, features |-> {}] >>
ServerIds == { ServerList[i].id : i \in DOMAIN ServerList }

\* An error message is the set of the substrings the handlers look for in it.
Markers == {"401", "unauthorized", "407", "net::ERR_PROXY_AUTH_REQUIRED",
            "net::ERR_NETWORK_CHANGED", "net::ERR_NETWORK_IO_SUSPENDED",
            "net::ERR_TUNNEL_CONNECTION_FAILED", "net::ERR_PROXY_CONNECTION_FAILED",
            "net::ERR_TIMED_OUT", "ECONNREFUSED", "ETIMEDOUT"}
\* 'Proxy connection lost', 'Connection initialization timeout', 'Failed to get
\* proxy credentials', 'Failed to set proxy configuration', 'Failed to refresh
\* credentials', 'Failed to update proxy configuration': none holds a marker.
PlainMessage == {}

HasAny(msg, markers) == msg \cap markers # {}

isTokenExpired(expiresAt, t) == t + TOKEN_EXPIRY_MARGIN >= expiresAt

\* The AuthConfig the identity provider issues at t (sign-in or refresh): its
\* access token and refresh token are told from others by t.
AuthConfig(t) ==
    [accessToken |-> t, refreshToken |-> t, expiresAt |-> t + TokenExpiresIn * 1000]

(*************************** timers ****************************************)
\* held: the object's field for this kind of timer (retryTimeout,
\* credentialRefreshTimer, connectionTimeout) refers to this timer.
Timer(kind, fireAt, arg, held) ==
    [kind |-> kind, fireAt |-> fireAt, arg |-> arg, held |-> held]

Release(ts, kind) ==
    [i \in DOMAIN ts |-> IF ts[i].kind = kind THEN [ts[i] EXCEPT !.held = FALSE] ELSE ts[i]]

Cancel(ts, kinds) == SelectSeq(ts, LAMBDA x : ~(x.held /\ x.kind \in kinds))

\* this.<field> = setTimeout(...): the field now refers to the new timer only
setTimer(w, kind, fireAt, arg) ==
    [w EXCEPT !.timers = Append(Release(w.timers, kind), Timer(kind, fireAt, arg, TRUE))]

\* setTimeout(...) whose handle is dropped
setLooseTimer(w, kind, fireAt, arg) ==
    [w EXCEPT !.timers = Append(w.timers, Timer(kind, fireAt, arg, FALSE))]

clearTimers(w) ==
    [w EXCEPT !.timers = Cancel(w.timers, {"retry", "refresh", "connTimeout"})]

(*************************** observations **********************************)
NoRecovery ==
    [active |-> FALSE, tokenRefreshes |-> 0, tokenOk |-> "none",
     fetches |-> 0, applies |-> 0, outcome |-> "none"]

InitObs ==
    [op |-> "init", applies |-> 0, fetches |-> 0, tokenRefreshes |-> 0,
     appliedTo |-> Null, inUse |-> Null, refreshDelay |-> 0, refreshed |-> Null,
     sentExpired |-> FALSE, episodeApplies |-> 0, authRefreshes |-> 0, events |-> 0, connects |-> 0,
     rec |-> NoRecovery]

\* A handler starts: what the last one did is forgotten, and a recovery whose
\* outcome was reported is closed.
BeginOp(o, name) ==
    [o EXCEPT !.op = name, !.applies = 0, !.fetches = 0, !.tokenRefreshes = 0,
              !.appliedTo = Null, !.refreshDelay = 0, !.refreshed = Null,
              !.sentExpired = FALSE,
              !.rec = IF o.rec.outcome # "none" THEN NoRecovery ELSE o.rec]

NoteApply(w, server) ==
    [w EXCEPT !.obs.applies = @ + 1,
              !.obs.appliedTo = Some([host |-> server.host, port |-> server.port]),
              !.obs.rec.applies = IF w.obs.rec.active THEN @ + 1 ELSE @]

\* ProtonVPNAPI.request: the Authorization header carries the stored session's
\* access token whenever a session is stored; its expiresAt is not looked at.
requestBearer(auth) == IF auth = Null THEN Null ELSE Some(auth[1])

\* A request for proxy credentials is sent at t; sentExpired: it carried a token
\* that isTokenExpired treats as expired.
NoteFetch(w, t) ==
    [w EXCEPT !.obs.fetches = @ + 1,
              !.obs.sentExpired =
                  @ \/ (requestBearer(w.auth) # Null
                          /\ isTokenExpired(requestBearer(w.auth)[1].expiresAt, t)),
              !.obs.rec.fetches = IF w.obs.rec.active THEN @ + 1 ELSE @]

NoteTokenRefresh(w, ok) ==
    [w EXCEPT !.obs.tokenRefreshes = @ + 1,
              !.obs.authRefreshes = @ + 1,
              !.obs.rec.tokenRefreshes = IF w.obs.rec.active THEN @ + 1 ELSE @,
              !.obs.rec.tokenOk = IF w.obs.rec.active
                                  THEN (IF ok THEN "ok" ELSE "failed") ELSE @]

\* The pair the proxy was last set with, with its true expiry.
NoteInUse(w, credentials) ==
    [w EXCEPT !.obs.inUse = Some([issuedAt  |-> credentials.issuedAt,
                                  expiresIn |-> credentials.expiresIn])]

EndRecovery(w, how) ==
    IF w.obs.rec.active
    THEN [w EXCEPT !.obs.rec.active = FALSE, !.obs.rec.outcome = how]
    ELSE w

(*************************** utils: the session ****************************)
\* refreshAuthToken (unnamed/part_001:886-930): without a refresh token no
\* request is made; a refused or failed request clears the stored session.
\* refreshAuthToken returns ret; granted is what its request met, at t.
NoteRefreshed(w, t, granted, ret) ==
    [w |-> [NoteTokenRefresh(w, granted) EXCEPT
                !.obs.refreshed = Some([at |-> t, granted |-> granted, ret |-> ret,
                                        auth |-> w.auth])],
     ret |-> ret]

\* A refreshAuthToken that leaves the stored session alone when its request
\* is not granted.
refreshAuthTokenKeepsSession(w, t, ok) ==
    IF ok
    THEN NoteRefreshed([w EXCEPT !.auth = Some(AuthConfig(t))], t, TRUE, TRUE)
    ELSE NoteRefreshed(w, t, FALSE, FALSE)

\* refreshAuthToken from the response to its request on: the session is saved
\* or cleared whatever the store holds by then.  ok: the response is ok and
\* its Code is 1000; otherwise the response is not ok, its Code is another, or
\* fetch threw.
refreshAuthTokenAnswered(w, t, ok) ==
    IF ok
    THEN NoteRefreshed([w EXCEPT !.auth = Some(AuthConfig(t))], t, TRUE, TRUE)
    ELSE NoteRefreshed([w EXCEPT !.auth = Null], t, FALSE, FALSE)

refreshAuthToken(w, t, env) ==
    IF w.auth = Null
    THEN [w |-> w, ret |-> FALSE]
    ELSE refreshAuthTokenAnswered(w, t, env.tokenOk)

(*************************** VPNClientUI ***********************************)
disconnectSync(w) == [clearTimers(w) EXCEPT !.ui.connectionState = "DISCONNECTED"]

disconnectCont(w, ok) ==
    IF ok THEN [w EXCEPT !.ui.isConnected = FALSE] ELSE w

disconnect(w, env) ==
    EndRecovery(disconnectCont(disconnectSync(w), env.clearOk), "disconnected")

AsCredentials(item) ==
    [username |-> item.Username, password |-> item.Password,
     expiresIn |-> item.Expire, issuedAt |-> item.issuedAt]

\* What getProxyToken answered, issued at t.
Issued(token, t) ==
    [username |-> token.username, password |-> token.password,
     expiresIn |-> token.expiresIn, issuedAt |-> t]

cacheFetched(w, t, credentials) ==
    [w |-> [w EXCEPT !.cs = cacheCredentials(w.cs, t, credentials)],
     ret |-> Some(credentials)]

\* ProtonVPNAPI.getProxyToken never throws (it answers null), so the only error
\* the catch of getProxyCredentials sees is its own 'Failed to get proxy
\* credentials', which holds neither '401', 'unauthorized' nor '429': the catch
\* answers null.
fetchProxyCredentials(w, t, env) ==
    IF env.fetch = Null
    THEN [w |-> NoteFetch(w, t), ret |-> Null]
    ELSE cacheFetched(NoteFetch(w, t), t, Issued(env.fetch[1], t))

\* if (cached && !isCredentialRefreshNeeded()), cached being an item
getProxyCredentialsCached(w, t, env, item, needed) ==
    IF ~needed.ret
    THEN [w |-> [w EXCEPT !.cs = needed.cs], ret |-> Some(AsCredentials(item))]
    ELSE fetchProxyCredentials([w EXCEPT !.cs = needed.cs], t, env)

\* cached: what getValidCredentials() answered
getProxyCredentialsChecked(w, t, env, cached) ==
    IF cached.ret = Null
    THEN fetchProxyCredentials([w EXCEPT !.cs = cached.cs], t, env)
    ELSE getProxyCredentialsCached(w, t, env, cached.ret[1],
                                   isCredentialRefreshNeeded(cached.cs, t))

getProxyCredentials(w, t, env) ==
    getProxyCredentialsChecked(w, t, env, getValidCredentials(w.cs, t))

scheduleCredentialRefreshAtExpiry(w, t, expiresInSeconds) ==
    [setTimer([w EXCEPT !.timers = Cancel(w.timers, {"refresh"})],
              "refresh", t + expiresInSeconds * 1000, 0)
        EXCEPT !.obs.refreshDelay = expiresInSeconds * 1000]

scheduleCredentialRefresh(w, t, expiresInSeconds) ==
    [setTimer([w EXCEPT !.timers = Cancel(w.timers, {"refresh"})],
              "refresh", t + expiresInSeconds * REFRESH_MS_PER_SECOND, 0)
        EXCEPT !.obs.refreshDelay = expiresInSeconds * REFRESH_MS_PER_SECOND]

retryConnection(w, t, retryCount) ==
    IF w.ui.currentServer = Null \/ w.ui.connectionState = "DISCONNECTED"
    THEN w
    ELSE setTimer(w, "retry", t + getRetryDelay(retryCount), retryCount)

handleFatalError(w, env) == disconnect(w, env)

\* handleProxyError once the timers are cleared, as far as its first await: at
\* the ceiling disconnect() has run as far as its await of IPC.PROXY.CLEAR.
handleProxyErrorCleared(w) ==
    IF w.ui.credentialFailures >= maxCredentialFailures
    THEN [w |-> disconnectSync(w), ceiling |-> TRUE]
    ELSE [w |-> w, ceiling |-> FALSE]

handleProxyErrorSync(w) == handleProxyErrorCleared(clearTimers(w))

\* r: what refreshAuthToken() answered
handleUnauthorized(r, t, env) ==
    IF r.ret THEN retryConnection(r.w, t, 0)
             ELSE disconnect(r.w, env)

\* tunnel, proxy, timeout and refused connections, lastRetryTime being set
handleConnectionFailed(w, t, env) ==
    IF w.ui.retryAttempts >= MAX_RETRY_ATTEMPTS
    THEN [disconnect(w, env) EXCEPT !.ui.retryAttempts = 0]
    ELSE \* retryConnection(this.retryAttempts++)
         retryConnection([w EXCEPT !.ui.retryAttempts = @ + 1], t, w.ui.retryAttempts)

\* handleProxyError from the answer to its first await on.
handleProxyErrorCont(s, t, msg, env) ==
    IF s.ceiling
    THEN EndRecovery(disconnectCont(s.w, env.clearOk), "disconnected")
    ELSE IF ~env.statusOk
    THEN [s.w EXCEPT !.ui.isConnected = FALSE]
    ELSE IF HasAny(msg, {"401", "unauthorized"})
    THEN handleUnauthorized(
             refreshAuthToken([s.w EXCEPT !.ui.credentialFailures = @ + 1], t, env), t, env)
    ELSE IF HasAny(msg, {"net::ERR_NETWORK_CHANGED", "net::ERR_NETWORK_IO_SUSPENDED"})
    THEN retryConnection(s.w, t, 0)
    ELSE IF HasAny(msg, {"net::ERR_TUNNEL_CONNECTION_FAILED",
                         "net::ERR_PROXY_CONNECTION_FAILED",
                         "net::ERR_TIMED_OUT", "ECONNREFUSED", "ETIMEDOUT"})
    THEN IF t - s.w.ui.lastRetryTime < RETRY_MIN_SPACING
         THEN s.w
         ELSE handleConnectionFailed([s.w EXCEPT !.ui.lastRetryTime = t], t, env)
    ELSE s.w

handleProxyError(w, t, msg, env) ==
    handleProxyErrorCont(handleProxyErrorSync(w), t, msg, env)

\* showSignInView(); clearCredentials(); clearAuthData()
requireSignIn(w) ==
    [w EXCEPT !.ui.signInShown = TRUE, !.cs = clearCredentials(w.cs), !.auth = Null]

\* c: what getProxyCredentials() answered
handleAuthFailureCredentials(c, t, env) ==
    IF c.ret # Null /\ c.w.ui.currentServer # Null
    THEN retryConnection(c.w, t, 0)
    ELSE requireSignIn(disconnect(c.w, env))

\* r: what refreshAuthToken() answered
handleAuthFailureRefreshed(r, t, env) ==
    IF r.ret
    THEN handleAuthFailureCredentials(getProxyCredentials(r.w, t, env), t, env)
    ELSE requireSignIn(disconnect(r.w, env))

handleAuthFailure(w, t, env) ==
    handleAuthFailureRefreshed(refreshAuthToken(w, t, env), t, env)

\* handleAuthFailure as far as the await of refreshAuthToken's request: task
\* holds the request, made with the stored session's refresh token; without a
\* refresh token refreshAuthToken answers false at once.
handleAuthFailureBegin(w, t, env) ==
    IF w.auth = Null
    THEN [w |-> handleAuthFailureRefreshed([w |-> w, ret |-> FALSE], t, env), task |-> << >>]
    ELSE [w |-> w, task |-> <<[kind |-> "tokenRefresh", session |-> w.auth[1]]>>]

handleNetworkError(w, t, error, env) ==
    IF error.retryable
    THEN setLooseTimer(w, "netRetry", t + NETWORK_SETTLE_DELAY, 0)
    ELSE disconnect(w, env)

\* The catch of connect(): handleProxyError sees one of the plain messages.
connectFailed(w, t, env) ==
    handleProxyError([w EXCEPT !.ui.connectionState = "ERROR"], t, PlainMessage, env)

\* connect() at its await of IPC.PROXY.SET; c: what getProxyCredentials()
\* answered.  task is the suspended call, Null when connect() has ended.
connectApply(c, t, env) ==
    IF c.ret = Null
    THEN [w |-> connectFailed(c.w, t, env), task |-> Null]
    ELSE [w |-> NoteApply(c.w, c.w.ui.currentServer[1]),
          task |-> Some([credentials |-> c.ret[1]])]

\* connect() with a session: the connection timeout is set, the credential
\* failures are forgotten, the credentials are asked for.
connectCredentials(w, t, env) ==
    connectApply(
        getProxyCredentials(
            [setTimer(w, "connTimeout", t + CONNECTION_TIMEOUT, 0)
                EXCEPT !.ui.credentialFailures = 0,
                       !.obs.authRefreshes = 0],
            t, env),
        t, env)

\* connect() in state CONNECTING: checkAuthStatus(), else handleAuth().
connectAuth(w, t, env) ==
    IF w.auth # Null /\ ~isTokenExpired(w.auth[1].expiresAt, t)
    THEN connectCredentials(w, t, env)
    ELSE IF env.signIn
         THEN connectCredentials(
                  [w EXCEPT !.auth = Some(AuthConfig(t))], t, env)
         ELSE [w |-> w, task |-> Null]

\* connect() as far as its await of IPC.PROXY.SET.
connectBegin(w, t, env) ==
    connectAuth([w EXCEPT !.ui.connectionState = "CONNECTING"], t, env)

\* connect() from the answer to IPC.PROXY.SET on.
connectEnd(w, t, task, env) ==
    IF env.setOk
    THEN scheduleCredentialRefresh(
             NoteInUse([clearTimers(w) EXCEPT !.ui.connectionState = "CONNECTED",
                                              !.ui.isConnected = TRUE],
                       task.credentials),
             t, task.credentials.expiresIn)
    ELSE connectFailed(w, t, env)

connectResume(b, t, env) ==
    IF b.task = Null THEN b.w ELSE connectEnd(b.w, t, b.task[1], env)

connect(w, t, env) == connectResume(connectBegin(w, t, env), t, env)

\* The servers handleLogicalError may switch to, as places in the list: online,
\* not the current one, every feature among the current one's.
alternativeServers(cur, online) ==
    { i \in DOMAIN ServerList :
         /\ ServerList[i].id \in online
         /\ (cur = Null \/ ServerList[i].id # cur[1].id)
         /\ \A f \in ServerList[i].features : cur # Null /\ f \in cur[1].features }

First(S) == CHOOSE i \in S : \A j \in S : i <= j

\* servers.find(...) answers the first of them
handleLogicalErrorFound(w, t, env, fits) ==
    IF fits # {}
    THEN connect([w EXCEPT !.ui.currentServer = Some(ServerList[First(fits)])], t, env)
    ELSE disconnect(w, env)

handleLogicalError(w, t, env) ==
    handleLogicalErrorFound(w, t, env, alternativeServers(w.ui.currentServer, env.online))

(******************* the callback of retryConnection's timer ***************)
retryFailed(w, t, retryCount, env) ==
    IF retryCount >= MAX_RETRY_ATTEMPTS
    THEN handleFatalError(w, env)
    ELSE retryConnection(w, t, retryCount + 1)

retrySucceeded(w, t, creds) ==
    EndRecovery(
        scheduleCredentialRefresh(
            [NoteInUse(w, creds) EXCEPT !.ui.retryAttempts = 0,
                                        !.obs.episodeApplies = 0],
            t, creds.expiresIn),
        "restored")

\* IPC.PROXY.SET is invoked: one more attempt of this episode
retryAttempted(w) ==
    [NoteApply(w, w.ui.currentServer[1]) EXCEPT !.obs.episodeApplies = @ + 1]

\* The callback from the answer to IPC.PROXY.SET on; task is the suspended
\* callback.
retryEnd(w, t, task, env) ==
    IF env.setOk
    THEN retrySucceeded(w, t, task.credentials)
    ELSE retryFailed(w, t, task.retryCount, env)

\* The callback at its await of IPC.PROXY.SET.
retryApply(w, retryCount, creds) ==
    [w |-> retryAttempted(w),
     task |-> Some([kind |-> "retry", retryCount |-> retryCount, credentials |-> creds])]

\* c: what getProxyCredentials() answered; cacheCredentials(newCreds) caches the
\* pair again, as of now
retryWithNew(c, t, retryCount, env) ==
    IF c.ret = Null
    THEN [w |-> retryFailed(c.w, t, retryCount, env), task |-> Null]
    ELSE retryApply([c.w EXCEPT !.cs = cacheCredentials(c.w.cs, t, c.ret[1])],
                    retryCount, c.ret[1])

\* if (!validCreds || isCredentialRefreshNeeded()), validCreds being an item
retryWithCached(w, t, retryCount, env, item, needed) ==
    IF needed.ret
    THEN retryWithNew(getProxyCredentials([w EXCEPT !.cs = needed.cs], t, env),
                      t, retryCount, env)
    ELSE retryApply([w EXCEPT !.cs = needed.cs], retryCount, AsCredentials(item))

\* valid: what getValidCredentials() answered
retryWithValid(w, t, retryCount, env, valid) ==
    IF valid.ret = Null
    THEN retryWithNew(getProxyCredentials([w EXCEPT !.cs = valid.cs], t, env),
                      t, retryCount, env)
    ELSE retryWithCached(w, t, retryCount, env, valid.ret[1],
                         isCredentialRefreshNeeded(valid.cs, t))

\* The callback as far as its await of IPC.PROXY.SET; task is Null when it has
\* ended before.
retryBegin(w, t, retryCount, env) ==
    retryWithValid(w, t, retryCount, env, getValidCredentials(w.cs, t))

retryResume(b, t, env) ==
    IF b.task = Null THEN b.w ELSE retryEnd(b.w, t, b.task[1], env)

retryCallback(w, t, retryCount, env) ==
    retryResume(retryBegin(w, t, retryCount, env), t, env)

(************* the callback of scheduleCredentialRefresh's timer ***********)
\* c: what getProxyCredentials() answered; both errors thrown here are plain
refreshApply(c, t, env) ==
    IF c.ret = Null
    THEN handleProxyError(c.w, t, PlainMessage, env)
    ELSE IF env.setOk
         THEN scheduleCredentialRefresh(
                  NoteInUse(NoteApply(c.w, c.w.ui.currentServer[1]), c.ret[1]),
                  t, c.ret[1].expiresIn)
         ELSE handleProxyError(NoteApply(c.w, c.w.ui.currentServer[1]), t, PlainMessage, env)

refreshCallback(w, t, env) ==
    IF ~w.ui.isConnected \/ w.ui.currentServer = Null
    THEN w
    ELSE refreshApply(getProxyCredentials(w, t, env), t, env)

\* The callback of the connection timeout connect() set.
connectionTimeoutCallback(w, t, env) ==
    IF w.ui.connectionState = "CONNECTING"
    THEN handleProxyError(w, t, PlainMessage, env)
    ELSE w

\* The callback of the timer handleNetworkError set.
networkRetryCallback(w, t) ==
    IF w.ui.currentServer # Null THEN retryConnection(w, t, 0) ELSE w

(*************************** PROXY_CONNECTION_LOST *************************)
\* The body of the listener of setupProxyEventListeners, past its guard; error
\* is Null when the event carries none.
onConnectionLost(w, t, error, env) ==
    IF error = Null
    THEN retryConnection([w EXCEPT !.ui.isConnected = FALSE], t, 0)
    ELSE CASE error[1].type = "auth_failed"   -> handleAuthFailure(w, t, env)
           [] error[1].type = "network_error" -> handleNetworkError(w, t, error[1], env)
           [] error[1].type = "server_error"  ->
                  IF error[1].retryable THEN retryConnection(w, t, 0)
                                        ELSE handleFatalError(w, env)
           [] error[1].type = "logical_error" -> handleLogicalError(w, t, env)
           [] OTHER -> handleProxyError(w, t, error[1].message, env)

\* The listener of setupProxyEventListeners, heard being what its guard found.
heardConnectionLost(w, heard, t, error, env) ==
    IF heard THEN onConnectionLost(w, t, error, env) ELSE w

\* The answer to the IPC.PROXY.STATUS of the listener of setupEventListeners.
LostEnv(env) == [env EXCEPT !.statusOk = env.lostStatusOk]

\* a: the listener of setupEventListeners at its first await
deliverToBoth(a, t, error, env) ==
    IF env.firstDone = "setupEventListeners"
    THEN heardConnectionLost(handleProxyErrorCont(a, t, PlainMessage, LostEnv(env)),
                             a.w.ui.isConnected, t, error, env)
    ELSE handleProxyErrorCont(
             [a EXCEPT !.w = heardConnectionLost(a.w, a.w.ui.isConnected, t, error, env)],
             t, PlainMessage, LostEnv(env))

\* PROXY_CONNECTION_LOST is delivered to both of its listeners, in the order they
\* were registered: the one of setupEventListeners runs handleProxyError(new
\* Error('Proxy connection lost')) as far as its first await, then the one of
\* setupProxyEventListeners tests its guard; which of the two then goes on first
\* depends on when the main process answers (env.firstDone).
deliverConnectionLost(w, t, error, env) ==
    deliverToBoth(handleProxyErrorSync(w), t, error, env)

(***************************************************************************)
(* main/main.ts: the main process (MainProcess).                           *)
(* m holds its fields, the store's 'proxy' entry (getProxyConfig), its     *)
(* interval timer, the proxy set on the session (m.osProxy) and what it    *)
(* has sent to the window.  m.check is not a                               *)
(* field of the program: it remembers the last run of checkProxyStatus     *)
(* that probed at the present instant (what each probe met, how many were  *)
(* counted as                                                              *)
(* working, the value returned, the error reported), and m.calls counts    *)
(* the IPC calls and window events received.                               *)
(***************************************************************************)
MAX_RETRY_COUNT == 3
PROXY_CHECK_INTERVAL == 15000
LOGICAL_CHECK_INTERVAL == 300000
NETWORK_CHECK_INTERVAL == 10000
\* expiresIn of the credentials setSystemProxy caches
SET_PROXY_EXPIRES_IN == 3600
\* results.filter(Boolean).length >= 2
WORKING_PROBES == 2
\* testUrls.length
ProbeCount == 3

\* What a probe's request through the proxy may meet: a response (2xx, 401 from
\* the endpoint, 407 from the proxy) or no response (refused, reset, timed out).
ProbeOutcomes == {"http200", "http401", "http407", "failed"}
AuthStatuses == {"http401", "http407"}

ProxyError(type, message, retryable) ==
    [type |-> type, message |-> message, retryable |-> retryable]

NoCheck == [made |-> FALSE, probes |-> << >>, counted |-> 0, ret |-> FALSE, error |-> Null]

\* utils.saveProxyConfig(config), store being the entry stored before.
saveProxyConfig(store, config, t) ==
    Some([config EXCEPT
        !.lastCredentialRefresh =
            IF store = Null \/ store[1].username # config.username
                            \/ store[1].password # config.password
            THEN Some(t) ELSE @,
        !.lastError =
            IF store # Null /\ store[1].lastError # Null THEN store[1].lastError ELSE @,
        !.retryCount =
            IF store # Null /\ store[1].retryCount # 0 THEN store[1].retryCount ELSE @])

updateProxyError(m, t, error) ==
    IF m.proxyConfig = Null
    THEN m
    ELSE [m EXCEPT !.proxyConfig =
             saveProxyConfig(m.proxyConfig,
                 [m.proxyConfig[1] EXCEPT !.lastError = Some(error),
                                          !.retryCount = @ + 1], t)]

stopProxyMonitoring(m) == [m EXCEPT !.monitoring = FALSE]

\* setInterval(callback, PROXY_CHECK_INTERVAL); networkMonitoringInitialized is
\* true since setupApp.
startProxyMonitoring(m, t) ==
    [m EXCEPT !.monitoring = TRUE, !.nextCheck = t + PROXY_CHECK_INTERVAL]

\* fetch(url, {agent, headers, timeout}).then(() => true).catch(() => false):
\* the promise resolves with whatever response arrives, its status unread.
probeResult(outcome) == outcome # "failed"

probeResults(probes) == [i \in DOMAIN probes |-> probeResult(probes[i])]

noteCheck(m, probes, results, ret, error) ==
    [m |-> [m EXCEPT !.check = [made    |-> TRUE,
                                probes  |-> probes,
                                counted |-> Cardinality({i \in DOMAIN results : results[i]}),
                                ret     |-> ret,
                                error   |-> error]],
     ret |-> ret]

\* checkLogicalStatus(serverId); ProtonVPNAPI.checkServerStatus answers false
\* when its request fails.
checkLogicalStatus(m, t, isUp) ==
    IF t - m.lastLogicalCheck < LOGICAL_CHECK_INTERVAL
    THEN [m |-> m, ret |-> TRUE, error |-> Null]
    ELSE IF isUp
         THEN [m |-> [m EXCEPT !.lastLogicalCheck = t], ret |-> TRUE, error |-> Null]
         ELSE [m |-> updateProxyError([m EXCEPT !.lastLogicalCheck = t], t,
                         ProxyError("logical_error", "Server unavailable", TRUE)),
               ret |-> FALSE,
               error |-> Some(ProxyError("logical_error", "Server unavailable", TRUE))]

\* checkProxyStatus taking the first success for the proxy working.
checkProxyStatusFirstWins(m, t, probes, results, isWorking) ==
    noteCheck(m, probes, results, TRUE, Null)

\* checkProxyStatus from `const isWorking = ...`
checkProxyStatusWorking(m, t, probes, results, isWorking) ==
    IF isWorking
    THEN noteCheck(m, probes, results, TRUE, Null)
    ELSE noteCheck(updateProxyError(m, t,
                       ProxyError("server_error", "Proxy endpoints unreachable", TRUE)),
                   probes, results, FALSE,
                   Some(ProxyError("server_error", "Proxy endpoints unreachable", TRUE)))

\* l: what checkLogicalStatus answered
checkProxyStatusLogical(l, t, probes, results) ==
    IF ~l.ret
    THEN noteCheck(l.m, probes, results, FALSE, l.error)
    ELSE checkProxyStatusWorking(l.m, t, probes, results,
             Cardinality({i \in DOMAIN results : results[i]}) >= WORKING_PROBES)

\* checkProxyStatus from `if (results.some(Boolean))`
checkProxyStatusResults(m, t, env, results) ==
    IF \E i \in DOMAIN results : results[i]
    THEN IF m.proxyConfig[1].serverId # Null
         THEN checkProxyStatusLogical(checkLogicalStatus(m, t, env.isUp), t,
                                      env.probes, results)
         ELSE checkProxyStatusWorking(m, t, env.probes, results,
                  Cardinality({i \in DOMAIN results : results[i]}) >= WORKING_PROBES)
    ELSE noteCheck(updateProxyError(m, t,
                       ProxyError("server_error", "All proxy endpoints unreachable", TRUE)),
                   env.probes, results, FALSE,
                   Some(ProxyError("server_error", "All proxy endpoints unreachable", TRUE)))

\* checkProxyStatus once checkNetworkConnectivity has answered true.
checkProxyStatusProbe(m, t, env) ==
    checkProxyStatusResults(m, t, env, probeResults(env.probes))

\* The checkProxyStatus that checkNetworkConnectivity calls when the network is
\* back: its own checkNetworkConnectivity is within NETWORK_CHECK_INTERVAL of
\* the first and answers that the network is online.
checkProxyStatusAgain(m, t, again) ==
    IF m.proxyConfig = Null \/ ~m.proxyConfig[1].enabled
    THEN m
    ELSE checkProxyStatusProbe(m, t, again).m

checkNetworkConnectivity(m, t, env, again) ==
    IF t - m.lastNetworkCheck < NETWORK_CHECK_INTERVAL
    THEN [m |-> m, ret |-> m.networkState = "online"]
    ELSE IF env.net
         THEN IF m.networkState = "offline"
              THEN [m |-> checkProxyStatusAgain(
                              [m EXCEPT !.lastNetworkCheck = t, !.networkState = "online"],
                              t, again),
                    ret |-> TRUE]
              ELSE [m |-> [m EXCEPT !.lastNetworkCheck = t], ret |-> TRUE]
         ELSE IF m.networkState = "online"
              THEN [m |-> updateProxyError(
                              [m EXCEPT !.lastNetworkCheck = t, !.networkState = "offline"],
                              t, ProxyError("network_error", "Network connectivity lost", TRUE)),
                    ret |-> FALSE]
              ELSE [m |-> [m EXCEPT !.lastNetworkCheck = t], ret |-> FALSE]

\* n: what checkNetworkConnectivity answered
checkProxyStatusNetwork(n, t, env) ==
    IF ~n.ret
    THEN [m |-> updateProxyError(n.m, t,
                    ProxyError("network_error", "Network connectivity issues", TRUE)),
          ret |-> FALSE]
    ELSE checkProxyStatusProbe(n.m, t, env)

checkProxyStatus(m, t, env, again) ==
    IF m.proxyConfig = Null \/ ~m.proxyConfig[1].enabled
    THEN [m |-> m, ret |-> FALSE]
    ELSE checkProxyStatusNetwork(checkNetworkConnectivity(m, t, env, again), t, env)

\* proxyBypassRules of setSystemProxy with the kill switch on, and without it
\* before the caller's list is added; the list is modelled as the set of its
\* entries.
KILL_SWITCH_BYPASS == {"localhost", "127.0.0.1"}
DEFAULT_BYPASS ==
    {"localhost", "127.0.0.1", "127.0.0.0/8", "10.0.0.0/8", "172.16.0.0/12",
     "192.168.0.0/16", "[::1]", "<local>"}

proxyBypassRules(config, settings) ==
    IF settings.killSwitch THEN KILL_SWITCH_BYPASS ELSE DEFAULT_BYPASS \cup config.bypassList

\* session.defaultSession.setProxy(proxyConfig) has resolved
setSystemProxyApplied(m, config, settings) ==
    [m EXCEPT !.osProxy = Some([host |-> config.host, port |-> config.port,
                                bypass |-> proxyBypassRules(config, settings),
                                username |-> config.username,
                                password |-> config.password])]

\* setSystemProxy after session.setProxy has resolved
setSystemProxySaved(m, t, config) ==
    [m EXCEPT
        !.cached = cacheCredentials([cached |-> @], t,
                       [username |-> config.username, password |-> config.password,
                        expiresIn |-> SET_PROXY_EXPIRES_IN, issuedAt |-> t]).cached,
        !.proxyConfig = saveProxyConfig(@,
                            [enabled |-> TRUE, host |-> config.host, port |-> config.port,
                             username |-> config.username, password |-> config.password,
                             bypassList |-> config.bypassList,
                             serverId |-> config.serverId, lastError |-> Null,
                             retryCount |-> 0, lastCredentialRefresh |-> Null], t)]

setSystemProxyMonitor(m, t) ==
    IF m.monitoring THEN m ELSE startProxyMonitoring(m, t)

setSystemProxy(m, t, config, settings, setOk) ==
    IF setOk
    THEN [m |-> setSystemProxyMonitor(
                    setSystemProxySaved(
                        setSystemProxyApplied([m EXCEPT !.proxyRetryCount = 0],
                                              config, settings),
                        t, config), t),
          ret |-> TRUE]
    ELSE [m |-> [m EXCEPT !.proxyRetryCount = 0], ret |-> FALSE]

\* session.defaultSession.setProxy({}) resolves or throws
clearSystemProxy(m, clearOk) ==
    IF clearOk
    THEN [m |-> stopProxyMonitoring([m EXCEPT !.osProxy = Null, !.proxyConfig = Null]),
          ret |-> TRUE]
    ELSE [m |-> m, ret |-> FALSE]

\* The interval's callback, after a check that failed.
monitorFailed(m) ==
    IF m.proxyRetryCount >= MAX_RETRY_COUNT
    THEN stopProxyMonitoring(
             [m EXCEPT !.sent = Append(@, ProxyError("server_error",
                                          "Maximum retry attempts reached", FALSE))])
    ELSE m

\* The interval's callback, after a check that succeeded.
monitorWorking(m, t) ==
    [m EXCEPT !.proxyRetryCount = 0,
              !.proxyConfig =
                  IF m.proxyConfig # Null /\ m.proxyConfig[1].lastError # Null
                  THEN saveProxyConfig(m.proxyConfig,
                           [m.proxyConfig[1] EXCEPT !.lastError = Null,
                                                    !.retryCount = 0], t)
                  ELSE m.proxyConfig]

\* c: what checkProxyStatus answered
monitorChecked(c, t) ==
    IF ~c.ret
    THEN monitorFailed([c.m EXCEPT !.proxyRetryCount = @ + 1])
    ELSE monitorWorking(c.m, t)

\* The callback startProxyMonitoring gives to setInterval.
monitorCallback(m, t, env, again) ==
    IF m.proxyConfig = Null \/ ~m.proxyConfig[1].enabled
    THEN stopProxyMonitoring(m)
    ELSE monitorChecked(checkProxyStatus(m, t, env, again), t)

\* The interval's callback as far as its await of checkProxyStatus(): task holds
\* the suspended callback, none when the callback has ended.
monitorBegin(m) ==
    IF m.proxyConfig = Null \/ ~m.proxyConfig[1].enabled
    THEN [m |-> stopProxyMonitoring(m), task |-> << >>]
    ELSE [m |-> m, task |-> <<[kind |-> "monitor"]>>]

\* The window's did-fail-load with ERR_INTERNET_DISCONNECTED or ERR_NETWORK_CHANGED.
onDidFailLoad(m, t) ==
    updateProxyError([m EXCEPT !.networkState = "offline"], t,
                     ProxyError("network_error", "Network connection lost", TRUE))

InitMainProcess ==
    [proxyConfig |-> Null, osProxy |-> Null, cached |-> Null, proxyRetryCount |-> 0,
     lastNetworkCheck |-> 0, networkState |-> "online", lastLogicalCheck |-> 0,
     monitoring |-> FALSE, nextCheck |-> 0, sent |-> << >>, check |-> NoCheck,
     calls |-> 0]

\* The application ends and is started again (new MainProcess()): the fields
\* and the session's proxy are those of a new process, the store's entry is as
\* the old one left it.  cleared: cleanup() was called on 'window-all-closed'
\* and its clearSystemProxy(), which app.quit() does not wait for, got as far
\* as clearProxyConfig(); on darwin, or when the process is killed, it did not.
restart(m, cleared) ==
    [InitMainProcess EXCEPT !.proxyConfig = IF cleared THEN Null ELSE m.proxyConfig,
                            !.calls = m.calls]

InitMainIdle == main = InitMainProcess

(***************************************************************************)
(* Specification SpecCred: the credential cache under any sequence of      *)
(* calls, with the clock moving between them.                              *)
(***************************************************************************)
NoCall == [fn |-> "none", at |-> 0, pre |-> Null, ret |-> Null, flag |-> FALSE]

InitBackoffIdle == backoff = [start |-> 0, attempt |-> 0, delay |-> 0, elapsed |-> 0, fired |-> 0]

InitCredStore ==
    /\ now = Epoch
    /\ cachedCredentials = Null
    /\ lastCredentialCheck = 0
    /\ credCall = NoCall

InitUiIdle ==
    /\ ui = [isConnected |-> FALSE, currentServer |-> Null,
             connectionState |-> "DISCONNECTED", retryAttempts |-> 0,
             lastRetryTime |-> 0, credentialFailures |-> 0, signInShown |-> TRUE]
    /\ timers = << >>
    /\ authData = Null
    /\ connectTask = Null
    /\ inFlight = << >>
    /\ obs = InitObs

InitCred == InitCredStore /\ InitBackoffIdle /\ InitUiIdle /\ InitMainIdle

CredTick ==
    /\ now + CredTimeStep <= Epoch + MaxCredElapsed
    /\ now' = now + CredTimeStep
    /\ credCall' = NoCall
    /\ UNCHANGED <<cachedCredentials, lastCredentialCheck, backoff, ui, timers, authData, connectTask, inFlight, obs, main>>

CredCache ==
    \E p \in CredPairs, L \in Lifetimes :
        LET cs == cacheCredentials(CredStore, now,
                      [username |-> p.username, password |-> p.password,
                       expiresIn |-> L, issuedAt |-> now])
        IN  /\ cachedCredentials' = cs.cached
            /\ lastCredentialCheck' = cs.lastCheck
            /\ credCall' = [NoCall EXCEPT !.fn = "cacheCredentials", !.at = now,
                                          !.pre = cachedCredentials, !.ret = cs.cached]
            /\ UNCHANGED <<now, backoff, ui, timers, authData, connectTask, inFlight, obs, main>>

CredClear ==
    LET cs == clearCredentials(CredStore)
    IN  /\ cachedCredentials' = cs.cached
        /\ lastCredentialCheck' = cs.lastCheck
        /\ credCall' = [NoCall EXCEPT !.fn = "clearCredentials", !.at = now,
                                      !.pre = cachedCredentials]
        /\ UNCHANGED <<now, backoff, ui, timers, authData, connectTask, inFlight, obs, main>>

CredGetCached ==
    LET r == getCachedCredentials(CredStore, now)
    IN  /\ cachedCredentials' = r.cs.cached
        /\ lastCredentialCheck' = r.cs.lastCheck
        /\ credCall' = [NoCall EXCEPT !.fn = "getCachedCredentials", !.at = now,
                                      !.pre = cachedCredentials, !.ret = r.ret]
        /\ UNCHANGED <<now, backoff, ui, timers, authData, connectTask, inFlight, obs, main>>

CredGetValid ==
    LET r == getValidCredentials(CredStore, now)
    IN  /\ cachedCredentials' = r.cs.cached
        /\ lastCredentialCheck' = r.cs.lastCheck
        /\ credCall' = [NoCall EXCEPT !.fn = "getValidCredentials", !.at = now,
                                      !.pre = cachedCredentials, !.ret = r.ret]
        /\ UNCHANGED <<now, backoff, ui, timers, authData, connectTask, inFlight, obs, main>>

CredNeedsRefresh ==
    LET r == isCredentialRefreshNeeded(CredStore, now)
    IN  /\ cachedCredentials' = r.cs.cached
        /\ lastCredentialCheck' = r.cs.lastCheck
        /\ credCall' = [NoCall EXCEPT !.fn = "isCredentialRefreshNeeded", !.at = now,
                                      !.pre = cachedCredentials, !.flag = r.ret]
        /\ UNCHANGED <<now, backoff, ui, timers, authData, connectTask, inFlight, obs, main>>

NextCred ==
    \/ CredTick
    \/ CredCache
    \/ CredClear
    \/ CredGetCached
    \/ CredGetValid
    \/ CredNeedsRefresh

SpecCred == InitCred /\ [][NextCred]_vars

(***************************************************************************)
(* Specification SpecBackoff: a retry chain retryConnection(start),        *)
(* retryConnection(start + 1), ... whose every attempt fails, as far as    *)
(* MaxAttempt.  backoff.delay is the delay of the timer last set.          *)
(***************************************************************************)
InitBackoff ==
    /\ InitCredStore
    /\ InitUiIdle
    /\ InitMainIdle
    /\ \E s \in 0..MaxAttempt :
           backoff = [start |-> s, attempt |-> s, delay |-> getRetryDelay(s),
                      elapsed |-> 0, fired |-> 0]

\* The timer fires, the attempt fails, retryConnection(retryCount + 1) sets the next.
BackoffNext ==
    /\ backoff.attempt < MaxAttempt
    /\ backoff' = [backoff EXCEPT !.attempt = @ + 1,
                                  !.delay = getRetryDelay(backoff.attempt + 1),
                                  !.elapsed = @ + backoff.delay,
                                  !.fired = @ + 1]
    /\ UNCHANGED <<now, cachedCredentials, lastCredentialCheck, credCall, ui, timers, authData, connectTask, inFlight, obs, main>>

NextBackoff == BackoffNext

SpecBackoff == InitBackoff /\ [][NextBackoff]_vars

(***************************************************************************)
(* The renderer's environment: what its collaborators answer.              *)
(***************************************************************************)
\* Seconds the credentials the directory issues to the renderer live.
UiLifetimes == {20}
\* What ProtonVPNAPI.getProxyToken answers: null, or a pair with its lifetime.
FetchOutcomes ==
    {Null} \cup { Some([username |-> "u1", password |-> "p1", expiresIn |-> L]) : L \in UiLifetimes }

\* An environment: tokenOk (the token refresh is granted), fetch (the directory's
\* answer), setOk, clearOk, statusOk (the main process's answers to IPC.PROXY.SET,
\* CLEAR, STATUS), signIn (the sign-in window ends with tokens), online (the
\* servers getServers() reports online), lostStatusOk and firstDone (see
\* deliverConnectionLost).
Envs(tokenOks, fetches, setOks, clearOks, statusOks, signIns, onlines, lostStatusOks, firstDones) ==
    [tokenOk : tokenOks, fetch : fetches, setOk : setOks, clearOk : clearOks,
     statusOk : statusOks, signIn : signIns, online : onlines,
     lostStatusOk : lostStatusOks, firstDone : firstDones]

Listeners == {"setupEventListeners", "setupProxyEventListeners"}
Granted == {TRUE}
NoneOnline == {{}}

\* The payloads PROXY_CONNECTION_LOST may carry (error?: ProxyError).
LostErrors ==
    {Null}
    \cup { Some([type |-> ty, message |-> PlainMessage, retryable |-> r]) :
              ty \in {"network_error", "server_error"}, r \in BOOLEAN }
    \cup { Some([type |-> ty, message |-> PlainMessage, retryable |-> FALSE]) :
              ty \in {"auth_failed", "logical_error"} }
    \cup { Some([type |-> "timeout", message |-> m, retryable |-> TRUE]) :
              m \in {PlainMessage, {"net::ERR_NETWORK_CHANGED"}, {"net::ERR_TIMED_OUT"}} }
    \cup { Some([type |-> "credential_error", message |-> {"401"}, retryable |-> FALSE]) }

AuthErrors ==
    { e \in LostErrors : e # Null /\ (e[1].type = "auth_failed" \/ HasAny(e[1].message, {"401", "unauthorized"})) }

\* The answers the handling of one payload can ask for.
EventEnvs(error) ==
    LET ty      == IF error = Null THEN "none" ELSE error[1].type
        auth    == error \in AuthErrors
        logical == ty = "logical_error"
        generic == ty \in {"timeout", "credential_error"}
    IN  Envs(IF auth THEN BOOLEAN ELSE Granted,
             IF ty = "auth_failed" \/ logical THEN FetchOutcomes ELSE {Null},
             IF logical THEN BOOLEAN ELSE Granted,
             BOOLEAN,
             IF logical \/ generic THEN BOOLEAN ELSE Granted,
             Granted,
             IF logical THEN {{}, ServerIds} ELSE NoneOnline,
             BOOLEAN,
             Listeners)

(***************************************************************************)
(* The renderer's steps.                                                   *)
(***************************************************************************)
World == [ui |-> ui, timers |-> timers, cs |-> CredStore, auth |-> authData, obs |-> obs]

Start(name) == [World EXCEPT !.obs = BeginOp(obs, name)]

Commit(w) ==
    /\ ui' = w.ui
    /\ timers' = w.timers
    /\ cachedCredentials' = w.cs.cached
    /\ lastCredentialCheck' = w.cs.lastCheck
    /\ authData' = w.auth
    /\ obs' = w.obs

Connected(u) == u.connectionState = "CONNECTED" /\ u.isConnected

\* A click on an online server of the list; updateUI(true) disables the servers
\* that are not selected while connected.
SelectServer ==
    \E i \in DOMAIN ServerList :
        /\ ~ui.isConnected
        /\ connectTask = Null
        /\ ui.currentServer # Some(ServerList[i])
        /\ Commit([Start("selectServer") EXCEPT !.ui.currentServer = Some(ServerList[i])])
        /\ UNCHANGED <<now, credCall, backoff, connectTask, inFlight, main>>

\* connect() is suspended, or has ended: what it has done so far is kept with
\* the suspended call.
Suspend(b) ==
    /\ Commit(b.w)
    /\ connectTask' =
           IF b.task = Null THEN Null
           ELSE Some([credentials |-> b.task[1].credentials,
                      applies     |-> b.w.obs.applies,
                      appliedTo   |-> b.w.obs.appliedTo,
                      fetches     |-> b.w.obs.fetches])

\* A click on the connect button (shown while not connected, disabled while a
\* connect() is running): connect() as far as its await of IPC.PROXY.SET.
ConnectStart(envs) ==
    /\ obs.connects < MaxConnects
    /\ ~ui.isConnected
    /\ connectTask = Null
    /\ ui.currentServer # Null
    /\ \E env \in envs :
           Suspend(connectBegin([Start("connect") EXCEPT !.obs.connects = @ + 1,
                                                         !.obs.episodeApplies = 0],
                                now, env))
    /\ UNCHANGED <<now, credCall, backoff, inFlight, main>>

\* The main process answers the IPC.PROXY.SET of connect().
ConnectApplyDone(envs) ==
    /\ connectTask # Null
    /\ \E env \in envs :
           Commit(connectEnd([Start(IF env.setOk THEN "connectApplied" ELSE "connectRefused") EXCEPT
                                  !.obs.applies = connectTask[1].applies,
                                  !.obs.appliedTo = connectTask[1].appliedTo,
                                  !.obs.fetches = connectTask[1].fetches],
                             now, connectTask[1], env))
    /\ connectTask' = Null
    /\ UNCHANGED <<now, credCall, backoff, inFlight, main>>

\* A click on the disconnect button (shown while connected).
Disconnect ==
    /\ ui.isConnected
    /\ \E env \in Envs(Granted, {Null}, Granted, BOOLEAN, Granted, Granted, NoneOnline,
                       Granted, {"setupEventListeners"}) :
           Commit(disconnect([Start("disconnect") EXCEPT !.obs.episodeApplies = 0], env))
    /\ UNCHANGED <<now, credCall, backoff, connectTask, inFlight, main>>

\* The main process sends PROXY_CONNECTION_LOST; at most budget of them are sent.
ConnectionLost(errors, budget) ==
    /\ obs.events < budget
    /\ \E error \in errors :
           \E env \in EventEnvs(error) :
               Commit(deliverConnectionLost(
                          [Start("connectionLost") EXCEPT
                               !.obs.events = @ + 1,
                               !.obs.episodeApplies = 0,
                               !.obs.rec = IF error \in AuthErrors /\ Connected(ui)
                                           THEN [NoRecovery EXCEPT !.active = TRUE]
                                           ELSE @],
                          now, error, env))
    /\ UNCHANGED <<now, credCall, backoff, connectTask, inFlight, main>>

(*************************** timers firing *********************************)
\* The timer that fires next: the earliest deadline, the first set among equals.
IsNextDue(i) ==
    /\ i \in DOMAIN timers
    /\ timers[i].fireAt <= now
    /\ \A j \in DOMAIN timers :
           \/ timers[j].fireAt > timers[i].fireAt
           \/ (timers[j].fireAt = timers[i].fireAt /\ j >= i)

Remove(ts, i) == [j \in 1..(Len(ts) - 1) |-> IF j < i THEN ts[j] ELSE ts[j + 1]]

Fired(name, i) == [Start(name) EXCEPT !.timers = Remove(timers, i)]

RetryTimerFire ==
    /\ \E i \in DOMAIN timers :
           /\ IsNextDue(i)
           /\ timers[i].kind = "retry"
           /\ \E env \in Envs(Granted, FetchOutcomes, BOOLEAN, BOOLEAN, Granted, Granted,
                              NoneOnline, Granted, {"setupEventListeners"}) :
                  Commit(retryCallback(Fired("retryFire", i), now, timers[i].arg, env))
    /\ UNCHANGED <<now, credCall, backoff, connectTask, inFlight, main>>

RefreshTimerFire ==
    /\ \E i \in DOMAIN timers :
           /\ IsNextDue(i)
           /\ timers[i].kind = "refresh"
           /\ \E env \in Envs(Granted, FetchOutcomes, BOOLEAN, BOOLEAN, BOOLEAN, Granted,
                              NoneOnline, Granted, {"setupEventListeners"}) :
                  Commit(refreshCallback(Fired("refreshFire", i), now, env))
    /\ UNCHANGED <<now, credCall, backoff, connectTask, inFlight, main>>

ConnectionTimeoutFire ==
    /\ \E i \in DOMAIN timers :
           /\ IsNextDue(i)
           /\ timers[i].kind = "connTimeout"
           /\ \E env \in Envs(Granted, {Null}, Granted, BOOLEAN, BOOLEAN, Granted,
                              NoneOnline, Granted, {"setupEventListeners"}) :
                  Commit(connectionTimeoutCallback(Fired("connectionTimeout", i), now, env))
    /\ UNCHANGED <<now, credCall, backoff, connectTask, inFlight, main>>

NetworkRetryFire ==
    /\ \E i \in DOMAIN timers :
           /\ IsNextDue(i)
           /\ timers[i].kind = "netRetry"
           /\ Commit(networkRetryCallback(
                         [Fired("networkRetry", i) EXCEPT !.obs.episodeApplies = 0], now))
    /\ UNCHANGED <<now, credCall, backoff, connectTask, inFlight, main>>

\* Something the renderer holds still depends on the clock: a pending timer, a
\* suspended connect(), cached credentials that have not expired, the spacing of
\* retries, the rate limit of checkCredentials.
TimeMatters ==
    \/ timers # << >>
    \/ connectTask # Null
    \/ inFlight # << >>
    \/ (cachedCredentials # Null /\ now < cachedCredentials[1].time)
    \/ (ui.lastRetryTime # 0 /\ now - ui.lastRetryTime < RETRY_MIN_SPACING)
    \/ (lastCredentialCheck # 0 /\ now - lastCredentialCheck < CREDENTIAL_CHECK_INTERVAL)

\* Time passes, while it matters: as far as the next timer's deadline, or by
\* UiTimeStep when that comes sooner or no timer is pending; never past
\* MaxUiElapsed.
NextDeadline == CHOOSE d \in { timers[i].fireAt : i \in DOMAIN timers } :
                    \A i \in DOMAIN timers : d <= timers[i].fireAt

AdvanceTime ==
    /\ TimeMatters
    /\ \A i \in DOMAIN timers : timers[i].fireAt > now
    /\ \E t \in ({now + UiTimeStep} \cup (IF timers = << >> THEN {} ELSE {NextDeadline})) :
           /\ t <= Epoch + MaxUiElapsed
           /\ timers # << >> => t <= NextDeadline
           /\ now' = t
    /\ obs' = BeginOp(obs, "tick")
    /\ UNCHANGED <<cachedCredentials, lastCredentialCheck, credCall, backoff,
                   ui, timers, authData, connectTask, inFlight, main>>

(***************************************************************************)
(* Specification SpecRenderer: the renderer from its construction on, with *)
(* any answers of its collaborators and at most MaxEvents events.          *)
(***************************************************************************)
\* restoreState(): isConnected is the stored proxyConfig.enabled; checkInitialAuth
\* shows the sign-in view unless a session that is not expired is stored.
InitRenderer ==
    /\ InitCredStore
    /\ InitBackoffIdle
    /\ InitMainIdle
    /\ timers = << >>
    /\ connectTask = Null
    /\ inFlight = << >>
    /\ obs = InitObs
    /\ authData \in {Null, Some(AuthConfig(Epoch - TokenExpiresIn * 1000)),
                     Some(AuthConfig(Epoch))}
    /\ \E enabled \in BOOLEAN :
           ui = [isConnected |-> enabled, currentServer |-> Null,
                 connectionState |-> "DISCONNECTED", retryAttempts |-> 0,
                 lastRetryTime |-> 0, credentialFailures |-> 0,
                 signInShown |-> (authData = Null \/ isTokenExpired(authData[1].expiresAt, now))]

ConnectEnvs ==
    Envs(Granted, FetchOutcomes, BOOLEAN, BOOLEAN, BOOLEAN, BOOLEAN, NoneOnline,
         Granted, {"setupEventListeners"})

NextRenderer ==
    \/ SelectServer
    \/ ConnectStart(ConnectEnvs)
    \/ ConnectApplyDone(ConnectEnvs)
    \/ Disconnect
    \/ ConnectionLost(LostErrors, MaxEvents)
    \/ RetryTimerFire
    \/ RefreshTimerFire
    \/ ConnectionTimeoutFire
    \/ NetworkRetryFire
    \/ AdvanceTime

SpecRenderer == InitRenderer /\ [][NextRenderer]_vars

(***************************************************************************)
(* Specification SpecRendererFair: SpecRenderer with the event loop's      *)
(* guarantees: a timer that is due fires, an awaited IPC.PROXY.SET is      *)
(* answered, and time goes on.  Nothing is assumed of the user or of the   *)
(* events of the main process.                                             *)
(***************************************************************************)
SpecRendererFair ==
    /\ SpecRenderer
    /\ WF_vars(RetryTimerFire)
    /\ WF_vars(RefreshTimerFire)
    /\ WF_vars(ConnectionTimeoutFire)
    /\ WF_vars(NetworkRetryFire)
    /\ WF_vars(ConnectApplyDone(ConnectEnvs))
    /\ WF_vars(AdvanceTime)

(***************************************************************************)
(* Specification SpecSession: the renderer started with a stored session   *)
(* that is close to the end of its life: valid at the start, within        *)
(* TOKEN_EXPIRY_MARGIN of its expiresAt SessionLeft later.                 *)
(***************************************************************************)
StoredSession ==
    AuthConfig(Epoch + SessionLeft + TOKEN_EXPIRY_MARGIN - TokenExpiresIn * 1000)

InitSession ==
    /\ InitCredStore
    /\ InitBackoffIdle
    /\ InitMainIdle
    /\ timers = << >>
    /\ connectTask = Null
    /\ inFlight = << >>
    /\ obs = InitObs
    /\ authData = Some(StoredSession)
    /\ \E enabled \in BOOLEAN :
           ui = [isConnected |-> enabled, currentServer |-> Null,
                 connectionState |-> "DISCONNECTED", retryAttempts |-> 0,
                 lastRetryTime |-> 0, credentialFailures |-> 0,
                 signInShown |-> FALSE]

SpecSession == InitSession /\ [][NextRenderer]_vars

(***************************************************************************)
(* Specification SpecSignals: the renderer receiving up to MaxSignals      *)
(* reports of a failure that may be retried, at any distance in time; it   *)
(* starts with a session that is not expired.                              *)
(***************************************************************************)
InitSignedIn == InitRenderer /\ authData = Some(AuthConfig(Epoch))

\* The payloads flagged retryable that the listener of setupProxyEventListeners
\* answers with a retry.
SignalErrors ==
    { e \in LostErrors :
        e # Null /\ e[1].type \in {"network_error", "server_error"} /\ e[1].retryable }

NextSignals ==
    \/ SelectServer
    \/ ConnectStart(ConnectEnvs)
    \/ ConnectApplyDone(ConnectEnvs)
    \/ Disconnect
    \/ ConnectionLost(SignalErrors, MaxSignals)
    \/ RetryTimerFire
    \/ RefreshTimerFire
    \/ ConnectionTimeoutFire
    \/ NetworkRetryFire
    \/ AdvanceTime

SpecSignals == InitSignedIn /\ [][NextSignals]_vars

(***************************************************************************)
(* Specification SpecNetworkError: the renderer hearing reports of network *)
(* errors only, so that every retry it makes answers a network error.      *)
(***************************************************************************)
NetworkErrors == { e \in LostErrors : e # Null /\ e[1].type = "network_error" }

NextNetworkError ==
    \/ SelectServer
    \/ ConnectStart(ConnectEnvs)
    \/ ConnectApplyDone(ConnectEnvs)
    \/ Disconnect
    \/ ConnectionLost(NetworkErrors, MaxEvents)
    \/ RetryTimerFire
    \/ RefreshTimerFire
    \/ ConnectionTimeoutFire
    \/ NetworkRetryFire
    \/ AdvanceTime

SpecNetworkError == InitRenderer /\ [][NextNetworkError]_vars

(***************************************************************************)
(* Specification SpecClassifier: the renderer hearing failures whose       *)
(* message indicates that authentication is required, each passed to       *)
(* handleProxyError by the listener of setupProxyEventListeners.           *)
(***************************************************************************)
\* Messages that indicate HTTP 401, HTTP 407 (alone, or as Chromium reports it:
\* ErrorCode.PROXY_AUTH_FAILED) or hold 'unauthorized'.
AuthIndications ==
    { Some([type |-> "credential_error", message |-> m, retryable |-> FALSE]) :
        m \in {{"401"}, {"unauthorized"}, {"407"}, {"net::ERR_PROXY_AUTH_REQUIRED"}} }

NextClassifier ==
    \/ SelectServer
    \/ ConnectStart(ConnectEnvs)
    \/ ConnectApplyDone(ConnectEnvs)
    \/ Disconnect
    \/ ConnectionLost(AuthIndications, MaxEvents)
    \/ RetryTimerFire
    \/ RefreshTimerFire
    \/ ConnectionTimeoutFire
    \/ AdvanceTime

SpecClassifier == InitRenderer /\ [][NextClassifier]_vars

(***************************************************************************)
(* Specification SpecLateRetry: the renderer with the callback of the      *)
(* retry timer suspended at its await of IPC.PROXY.SET, so that other      *)
(* handlers run between its two halves.                                    *)
(***************************************************************************)
\* The payloads that lead to retryConnection.
RetryErrors ==
    { e \in LostErrors :
        \/ e = Null
        \/ e[1].type \in {"network_error", "server_error"} /\ e[1].retryable
        \/ e[1].type = "timeout" /\ e[1].message # PlainMessage }

\* The retry timer fires: its callback runs as far as its await of
\* IPC.PROXY.SET, or to its end when it gets no credentials.
RetryStart ==
    /\ \E i \in DOMAIN timers :
           /\ IsNextDue(i)
           /\ timers[i].kind = "retry"
           /\ \E env \in Envs(Granted, FetchOutcomes, Granted, BOOLEAN, Granted, Granted,
                              NoneOnline, Granted, {"setupEventListeners"}) :
                  /\ Commit(retryBegin(Fired("retryFire", i), now, timers[i].arg, env).w)
                  /\ inFlight' =
                         inFlight \o retryBegin(Fired("retryFire", i), now, timers[i].arg, env).task
    /\ UNCHANGED <<now, credCall, backoff, connectTask, main>>

\* The main process answers the IPC.PROXY.SET of a retry.
RetryApplyDone ==
    /\ \E i \in DOMAIN inFlight :
           /\ inFlight[i].kind = "retry"
           /\ \E env \in Envs(Granted, {Null}, BOOLEAN, BOOLEAN, Granted, Granted,
                              NoneOnline, Granted, {"setupEventListeners"}) :
                  Commit(retryEnd(Start(IF env.setOk THEN "retryApplied" ELSE "retryRefused"),
                                  now, inFlight[i], env))
           /\ inFlight' = Remove(inFlight, i)
    /\ UNCHANGED <<now, credCall, backoff, connectTask, main>>

NextLateRetry ==
    \/ SelectServer
    \/ ConnectStart(ConnectEnvs)
    \/ ConnectApplyDone(ConnectEnvs)
    \/ Disconnect
    \/ ConnectionLost(RetryErrors, MaxEvents)
    \/ RetryStart
    \/ RetryApplyDone
    \/ RefreshTimerFire
    \/ ConnectionTimeoutFire
    \/ NetworkRetryFire
    \/ AdvanceTime

SpecLateRetry == InitRenderer /\ [][NextLateRetry]_vars

(***************************************************************************)
(* Specification SpecTokenRefresh: the renderer hearing up to              *)
(* MaxRefreshEvents reports of an authentication failure, the request of   *)
(* refreshAuthToken being answered some time after it is made.             *)
(***************************************************************************)
\* b: handleAuthFailure at its await, or ended
AwaitRefresh(b) ==
    /\ Commit(b.w)
    /\ inFlight' = inFlight \o b.task

\* PROXY_CONNECTION_LOST {type: auth_failed} is delivered: the listener of
\* setupEventListeners runs handleProxyError('Proxy connection lost'), the one
\* of setupProxyEventListeners, if its guard (heard) lets it, handleAuthFailure
\* as far as refreshAuthToken's request.
AuthFailureHeard(w, heard, env) ==
    IF heard
    THEN AwaitRefresh(handleAuthFailureBegin(w, now, env))
    ELSE AwaitRefresh([w |-> w, task |-> << >>])

AuthFailureStart ==
    /\ obs.events < MaxRefreshEvents
    /\ \E env \in Envs(Granted, {Null}, Granted, BOOLEAN, Granted, Granted, NoneOnline,
                       BOOLEAN, {"setupEventListeners"}) :
           AuthFailureHeard(
               handleProxyErrorCont(
                   handleProxyErrorSync([Start("connectionLost") EXCEPT !.obs.events = @ + 1]),
                   now, PlainMessage, LostEnv(env)),
               ui.isConnected, env)
    /\ UNCHANGED <<now, credCall, backoff, connectTask, main>>

\* The identity provider answers a request of refreshAuthToken, or the request
\* fails.
TokenRefreshDone ==
    /\ \E i \in DOMAIN inFlight :
           /\ inFlight[i].kind = "tokenRefresh"
           /\ \E env \in Envs(BOOLEAN, FetchOutcomes, Granted, BOOLEAN, Granted, Granted,
                              NoneOnline, Granted, {"setupEventListeners"}) :
                  Commit(handleAuthFailureRefreshed(
                             refreshAuthTokenAnswered(Start("tokenRefreshed"), now, env.tokenOk),
                             now, env))
           /\ inFlight' = Remove(inFlight, i)
    /\ UNCHANGED <<now, credCall, backoff, connectTask, main>>

NextTokenRefresh ==
    \/ SelectServer
    \/ ConnectStart(ConnectEnvs)
    \/ ConnectApplyDone(ConnectEnvs)
    \/ AuthFailureStart
    \/ TokenRefreshDone

SpecTokenRefresh == InitRenderer /\ [][NextTokenRefresh]_vars

(***************************************************************************)
(* Specification SpecAuthStorm: the renderer receiving up to               *)
(* MaxStormEvents events that report an authentication failure, one after  *)
(* the other, before any timer fires.                                      *)
(***************************************************************************)
NextAuthStorm ==
    \/ SelectServer
    \/ ConnectStart(ConnectEnvs)
    \/ ConnectApplyDone(ConnectEnvs)
    \/ ConnectionLost(AuthErrors, MaxStormEvents)

SpecAuthStorm == InitRenderer /\ [][NextAuthStorm]_vars

(***************************************************************************)
(* Specification SpecMain: the main process serving the renderer's IPC     *)
(* calls, running its interval's health checks and hearing the window's    *)
(* events, with the clock moving between them.                             *)
(***************************************************************************)
\* The configs IPC.PROXY.SET may carry.  No call of the renderer sends a
\* serverId; the handler stores whatever fields it is sent (ProxyConfig.serverId).
\* bypassList is the caller's list: the one connect() sends (the private ranges,
\* as it happens the entries of DEFAULT_BYPASS), or none as from the callbacks
\* of the retry and refresh timers; here a list comes only with the configs
\* that carry no serverId.
MainConfigs ==
    { config \in [host : {ServerList[1].host}, port : {ServerList[1].port},
                  username : {c.username : c \in CredPairs},
                  password : {c.password : c \in CredPairs},
                  serverId : {Null, Some(ServerList[1].id)},
                  bypassList : {{}, DEFAULT_BYPASS}] :
        /\ [username |-> config.username, password |-> config.password] \in CredPairs
        /\ config.serverId = Null \/ config.bypassList = {} }

\* getSettings() as setSystemProxy reads it.
MainSettings == [killSwitch : BOOLEAN]

\* The three probes are made alike and their results are only counted, so the
\* outcomes that include a 401 or a 407 are drawn in one order; those made of
\* successes and failures alone are drawn in every order.
ProbeRank(o) == CASE o = "http200" -> 1 [] o = "http401" -> 2 [] o = "http407" -> 3 [] OTHER -> 4
Probes ==
    { p \in [1..ProbeCount -> ProbeOutcomes] :
        \A i \in 1..(ProbeCount - 1) : ProbeRank(p[i]) <= ProbeRank(p[i + 1]) }
    \cup [1..ProbeCount -> {"http200", "failed"}]
NoProbes == { [i \in 1..ProbeCount |-> "failed"] }

\* Whether a health check made now would ask the directory about the server.
AsksDirectory(m, t) ==
    /\ m.proxyConfig # Null
    /\ m.proxyConfig[1].serverId # Null
    /\ t - m.lastLogicalCheck >= LOGICAL_CHECK_INTERVAL

\* What one health check meets: the request to 1.1.1.1, the three probes, and
\* the directory's answer about the server when it is asked.
CheckEnvs(m, t) ==
    [net : {TRUE}, probes : Probes,
     isUp : IF AsksDirectory(m, t) THEN BOOLEAN ELSE {TRUE}]
    \cup [net : {FALSE}, probes : NoProbes, isUp : {TRUE}]

\* What the probes of the check made when the network is found to be back
\* meet: none, one, two or three of them get a response.
RecheckProbes ==
    { <<"failed", "failed", "failed">>, <<"http200", "failed", "failed">>,
      <<"http200", "http407", "failed">>, <<"http200", "http200", "http200">> }

\* What the check made when the network is found to be back meets; any value
\* when no such check is made.
Rechecks(m, t, env) ==
    IF /\ t - m.lastNetworkCheck >= NETWORK_CHECK_INTERVAL
       /\ env.net
       /\ m.networkState = "offline"
       /\ m.proxyConfig # Null
    THEN [net : {TRUE}, probes : RecheckProbes,
          isUp : IF AsksDirectory(m, t) THEN BOOLEAN ELSE {TRUE}]
    ELSE {env}

InitMain ==
    /\ now = MainEpoch
    /\ cachedCredentials = Null
    /\ lastCredentialCheck = 0
    /\ credCall = NoCall
    /\ InitBackoffIdle
    /\ InitUiIdle
    /\ main = InitMainProcess

\* An IPC call or a window event is received.
Received(m) == [m EXCEPT !.calls = @ + 1]

\* ipcMain.handle(IPC_CHANNELS.PROXY.SET)
MainSetProxy ==
    /\ main.calls < MaxMainCalls
    /\ \E config \in MainConfigs, settings \in MainSettings, setOk \in BOOLEAN :
           main' = setSystemProxy(Received(main), now, config, settings, setOk).m
    /\ UNCHANGED <<now, credVars, backoff, uiVars>>

\* ipcMain.handle(IPC_CHANNELS.PROXY.CLEAR)
MainClearProxy ==
    /\ main.calls < MaxMainCalls
    /\ \E clearOk \in BOOLEAN : main' = clearSystemProxy(Received(main), clearOk).m
    /\ UNCHANGED <<now, credVars, backoff, uiVars>>

\* ipcMain.handle(IPC_CHANNELS.PROXY.STATUS)
MainProxyStatus ==
    /\ main.calls < MaxMainCalls
    /\ \E env \in CheckEnvs(main, now) : \E again \in Rechecks(main, now, env) :
           main' = checkProxyStatus(Received(main), now, env, again).m
    /\ UNCHANGED <<now, credVars, backoff, uiVars>>

\* setInterval calls back again PROXY_CHECK_INTERVAL later unless it was cleared.
intervalFired(m, due) ==
    IF m.monitoring THEN [m EXCEPT !.nextCheck = due + PROXY_CHECK_INTERVAL] ELSE m

\* The interval of startProxyMonitoring fires.
MainMonitorFire ==
    /\ main.monitoring
    /\ now >= main.nextCheck
    /\ \E env \in CheckEnvs(main, now) : \E again \in Rechecks(main, now, env) :
           main' = intervalFired(monitorCallback(main, now, env, again), main.nextCheck)
    /\ UNCHANGED <<now, credVars, backoff, uiVars>>

\* webContents 'did-fail-load' reporting that the network is gone.
MainDidFailLoad ==
    /\ main.calls < MaxMainCalls
    /\ main' = onDidFailLoad(Received(main), now)
    /\ UNCHANGED <<now, credVars, backoff, uiVars>>

\* session 'will-download': checkNetworkConnectivity()
MainWillDownload ==
    /\ main.calls < MaxMainCalls
    /\ \E env \in CheckEnvs(main, now) : \E again \in Rechecks(main, now, env) :
           main' = checkNetworkConnectivity(Received(main), now, env, again).m
    /\ UNCHANGED <<now, credVars, backoff, uiVars>>

\* The application is closed and started again.
MainRestart ==
    /\ main.calls < MaxMainCalls
    /\ \E cleared \in BOOLEAN : main' = restart(Received(main), cleared)
    /\ UNCHANGED <<now, credVars, backoff, uiVars>>

\* Time passes; a callback of the interval that is due runs first.  The
\* remembered check is of the instant it was made at.
MainAdvanceTime ==
    /\ now + MainTimeStep <= MainEpoch + MaxMainElapsed
    /\ ~(main.monitoring /\ now >= main.nextCheck)
    /\ now' = now + MainTimeStep
    /\ main' = [main EXCEPT !.check = NoCheck]
    /\ UNCHANGED <<credVars, backoff, uiVars>>

NextMain ==
    \/ MainSetProxy
    \/ MainClearProxy
    \/ MainProxyStatus
    \/ MainMonitorFire
    \/ MainDidFailLoad
    \/ MainWillDownload
    \/ MainRestart
    \/ MainAdvanceTime

SpecMain == InitMain /\ [][NextMain]_vars

(***************************************************************************)
(* Specification SpecMonitorOverlap: the main process with the callbacks   *)
(* of the health-check interval suspended at their await of                *)
(* checkProxyStatus(), whose requests (3 s, 10 s and the directory's       *)
(* retries) may take longer than PROXY_CHECK_INTERVAL, so that the         *)
(* interval fires again while a callback is still waiting.                 *)
(***************************************************************************)
\* The proxy is set once, by the first IPC.PROXY.SET.
OverlapSetProxy == main.proxyConfig = Null /\ MainSetProxy

\* What a health check meets, the probes' outcomes being those of RecheckProbes.
OverlapEnvs(m, t) ==
    { env \in CheckEnvs(m, t) : env.probes \in RecheckProbes \cup NoProbes }

\* The interval fires: its callback runs as far as its await.
MonitorStart ==
    /\ main.monitoring
    /\ now >= main.nextCheck
    /\ Len(inFlight) < MaxOverlap
    /\ main' = intervalFired(monitorBegin(main).m, main.nextCheck)
    /\ inFlight' = inFlight \o monitorBegin(main).task
    /\ UNCHANGED <<now, credVars, backoff, ui, timers, authData, connectTask, obs>>

\* The check of the callback that has waited longest answers, and the callback
\* goes on from there.
MonitorDone ==
    /\ inFlight # << >>
    /\ inFlight[1].kind = "monitor"
    /\ \E env \in OverlapEnvs(main, now) : \E again \in Rechecks(main, now, env) :
           main' = monitorChecked(checkProxyStatus(main, now, env, again), now)
    /\ inFlight' = Tail(inFlight)
    /\ UNCHANGED <<now, credVars, backoff, ui, timers, authData, connectTask, obs>>

OverlapAdvanceTime ==
    /\ now + MainTimeStep <= MainEpoch + MaxOverlapElapsed
    /\ ~(main.monitoring /\ now >= main.nextCheck /\ Len(inFlight) < MaxOverlap)
    /\ now' = now + MainTimeStep
    /\ main' = [main EXCEPT !.check = NoCheck]
    /\ UNCHANGED <<credVars, backoff, uiVars>>

NextMonitorOverlap ==
    \/ OverlapSetProxy
    \/ MonitorStart
    \/ MonitorDone
    \/ OverlapAdvanceTime

SpecMonitorOverlap == InitMain /\ [][NextMonitorOverlap]_vars

(***************************************************************************)
(* Claims about the credential cache (under SpecCred).                     *)
(***************************************************************************)
\* The cache item a call found, and whether it was still unexpired at the call.
PreValid(c) == c.pre # Null /\ c.at < c.pre[1].time
\* now - t0 >= 0.9 * L, with t0 = time - Expire * 1000, in whole numbers
PastRefreshThreshold(item, t) ==
    10 * (t - (item.time - item.Expire * 1000)) >= 9 * item.Expire * 1000

\* C3 (as claimed): every call of isCredentialRefreshNeeded answers true iff no
\* valid credentials are cached or 90% of their lifetime has passed.
C3_NeedsRefreshEveryCall ==
    credCall.fn = "isCredentialRefreshNeeded" =>
        (credCall.flag <=> (~PreValid(credCall) \/ PastRefreshThreshold(credCall.pre[1], credCall.at)))

\* C4: getValidCredentials and getCachedCredentials return the cached item iff
\* now < obtainedAt + lifetime (item.time); otherwise they return null and the
\* cache is cleared, so no call ever returns an expired item.
C4_ValidIffUnexpired ==
    credCall.fn \in {"getValidCredentials", "getCachedCredentials"} =>
        IF PreValid(credCall)
        THEN credCall.ret = credCall.pre /\ cachedCredentials = credCall.pre
        ELSE credCall.ret = Null /\ cachedCredentials = Null

\* C4's case: credentials were cached, their lifetime has passed, and
\* getValidCredentials was called.
C4_Witness ==
    /\ credCall.fn = "getValidCredentials"
    /\ credCall.pre # Null
    /\ credCall.at >= credCall.pre[1].time
    /\ credCall.ret = Null


(***************************************************************************)
(* Claims about the retry delays (under SpecBackoff).                      *)
(***************************************************************************)
ClaimedDelay(attempt) ==
    CASE attempt = 0 -> 500
      [] attempt = 1 -> 2000
      [] attempt = 2 -> 6000
      [] OTHER       -> 12000

\* C2 (as claimed): getRetryDelay yields 500, 2000, 6000, 12000 ms for attempts
\* 0, 1, 2, 3 and 12000 ms for every attempt >= 4.
C2_DelaySequence == backoff.delay = ClaimedDelay(backoff.attempt)

(***************************************************************************)
(* Claims about the renderer (under SpecRenderer and SpecAuthStorm).       *)
(***************************************************************************)
RefreshTimers == { i \in DOMAIN timers : timers[i].kind = "refresh" }

AppliedToCurrent ==
    /\ ui.currentServer # Null
    /\ obs.appliedTo = Some([host |-> ui.currentServer[1].host,
                             port |-> ui.currentServer[1].port])

C6_RefreshBeforeExpiry ==
    (Connected(ui) /\ obs.refreshDelay > 0 /\ obs.inUse # Null) =>
        \E i \in RefreshTimers :
            timers[i].fireAt < obs.inUse[1].issuedAt + obs.inUse[1].expiresIn * 1000

\* C7 (as claimed): when the refresh timer's callback has re-applied the proxy
\* while connected, it has fetched new credentials from the directory (once, and
\* they are the ones in use), applied them once to the current server's host and
\* port, and the next refresh is due 90% of their lifetime from now.
C7_RefreshFetchesNew ==
    (obs.op = "refreshFire" /\ obs.refreshDelay > 0 /\ Connected(ui)) =>
        /\ obs.fetches = 1
        /\ obs.inUse # Null /\ obs.inUse[1].issuedAt = now
        /\ obs.applies = 1
        /\ AppliedToCurrent
        /\ \A i \in RefreshTimers :
               10 * (timers[i].fireAt - now) = 9 * obs.inUse[1].expiresIn * 1000

C10_AuthProbeClassified ==
    (main.check.made /\ \E i \in DOMAIN main.check.probes :
                            main.check.probes[i] \in AuthStatuses) =>
        /\ main.check.error # Null
        /\ main.check.error[1].type = "auth_failed"
        /\ main.check.counted <=
               Cardinality({i \in DOMAIN main.check.probes :
                               main.check.probes[i] = "http200"})

Succeeded(probes) == Cardinality({i \in DOMAIN probes : probes[i] = "http200"})

AuthSeen(probes) == \E i \in DOMAIN probes : probes[i] \in AuthStatuses

DirectoryDown(check) == check.error # Null /\ check.error[1].type = "logical_error"

\* C11: a health check that probed (the network being online), none of whose
\* probes met 401 or 407 and in which the directory did not report the server
\* down, answers that the proxy works iff at least 2 of its 3 probes succeeded;
\* when it answers that it does not, it reports a server_error, and otherwise
\* no error.
C11_MajorityVote ==
    (main.check.made /\ ~AuthSeen(main.check.probes) /\ ~DirectoryDown(main.check)) =>
        /\ main.check.ret = (Succeeded(main.check.probes) >= WORKING_PROBES)
        /\ main.check.ret => main.check.error = Null
        /\ ~main.check.ret =>
               (main.check.error # Null /\ main.check.error[1].type = "server_error")

\* C11's case: a check whose probes were [fail, success, success].
C11_Witness ==
    /\ main.check.made
    /\ main.check.probes = <<"failed", "http200", "http200">>
    /\ main.check.ret

\* The private ranges that must never go through the proxy.
RequiredBypass == {"127.0.0.1", "10.0.0.0/8", "172.16.0.0/12", "192.168.0.0/16"}

\* C12 (as claimed): whatever list the caller sent and whatever the settings,
\* the bypass list of the proxy that setSystemProxy has set on the session
\* contains 127.0.0.1, 10.0.0.0/8, 172.16.0.0/12 and 192.168.0.0/16.
C12_BypassSuperset ==
    main.osProxy # Null => RequiredBypass \subseteq main.osProxy[1].bypass

\* IPC.PROXY.CLEAR answers true: clearSystemProxy clears the proxy, removes the
\* stored config and returns true, whether or not a proxy was set.
ClearGranted ==
    CHOOSE env \in Envs(Granted, {Null}, Granted, Granted, Granted, Granted, NoneOnline,
                        Granted, {"setupEventListeners"}) : TRUE
DisconnectedOnce == disconnect(World, ClearGranted)
DisconnectedTwice == disconnect(DisconnectedOnce, ClearGranted)

LateRetryStep ==
    /\ ui.connectionState = "DISCONNECTED"
    /\ \/ obs'.op = "retryFire"
       \/ obs'.op \in {"retryApplied", "retryRefused"} /\ Len(inFlight') < Len(inFlight)

NoNewTimer ==
    \A j \in DOMAIN timers' : \E k \in DOMAIN timers : timers'[j] = timers[k]

ProxyCleared(m) ==
    /\ m.osProxy = Null
    /\ m.proxyConfig = Null \/ ~m.proxyConfig[1].enabled

\* C16 (as claimed): when the monitor of the main process has used up its
\* retries and reports the connection as lost, the proxy is cleared and the
\* stored config is no longer enabled.
C16_LostMeansCleared ==
    [][Len(main'.sent) > Len(main.sent) => ProxyCleared(main')]_vars

\* C17 (as claimed): whenever the stored config has enabled = true, the proxy
\* is set, to that config's host, port and credentials, with the entries of
\* its bypass list bypassed.
C17_EnabledMeansApplied ==
    (main.proxyConfig # Null /\ main.proxyConfig[1].enabled) =>
        /\ main.osProxy # Null
        /\ main.osProxy[1].host = main.proxyConfig[1].host
        /\ main.osProxy[1].port = main.proxyConfig[1].port
        /\ main.osProxy[1].username = main.proxyConfig[1].username
        /\ main.osProxy[1].password = main.proxyConfig[1].password
        /\ main.proxyConfig[1].bypassList \subseteq main.osProxy[1].bypass

\* The state is one the connection rests in.
Settled == ui.connectionState \in {"CONNECTED", "DISCONNECTED"}
\* A timer is pending or a call is awaited: the renderer will act again.
WorkPending == timers # << >> \/ connectTask # Null \/ inFlight # << >>

\* C18 (as claimed): whenever the state is ERROR, then with no further action
\* of the user it eventually is CONNECTED or DISCONNECTED.  (A timer still
\* pending counts as on the way, so that the end of the model's clock is not
\* taken for a hang.)
C18_ErrorIsLeft ==
    (ui.connectionState = "ERROR") ~> (Settled \/ WorkPending)

\* The requests of refreshAuthToken that are awaiting their answer.
RefreshesInFlight == { i \in DOMAIN inFlight : inFlight[i].kind = "tokenRefresh" }

C20_RefreshOutcome ==
    obs.refreshed # Null =>
        /\ ~obs.refreshed[1].granted =>
               (~obs.refreshed[1].ret /\ obs.refreshed[1].auth = Null)
        /\ obs.refreshed[1].granted =>
               (obs.refreshed[1].ret /\
                obs.refreshed[1].auth = Some(AuthConfig(obs.refreshed[1].at)))

C20_Witness ==
    /\ obs.refreshed # Null
    /\ ~obs.refreshed[1].granted
    /\ authData = Null

FirstAttemptTimers == SelectSeq(timers, LAMBDA x : x.kind = "retry" /\ x.arg = 0)

ConnectEndedUnauthenticated ==
    /\ obs.op = "connect"
    /\ connectTask = Null
    /\ obs.fetches = 0
    /\ obs.applies = 0
    /\ (authData = Null \/ isTokenExpired(authData[1].expiresAt, now))

C24_AuthFailureDisconnects ==
    ConnectEndedUnauthenticated => (ui.connectionState = "DISCONNECTED" /\ timers = << >>)

(***************************************************************************)
(* C25: when the connection timeout fires while the state is CONNECTING,   *)
(* the failure path is entered: afterwards a retry timer is pending or the *)
(* state is DISCONNECTED; the state is not CONNECTING any more.            *)
(***************************************************************************)
TimeoutWhileConnecting ==
    obs'.op = "connectionTimeout" /\ ui.connectionState = "CONNECTING"

RetryPending(ts) == \E i \in DOMAIN ts : ts[i].kind = "retry"

C25_TimeoutEntersFailurePath ==
    [][TimeoutWhileConnecting =>
           (ui'.connectionState = "DISCONNECTED"
               \/ (RetryPending(timers') /\ ui'.connectionState # "CONNECTING"))]_vars

(***************************************************************************)
(* C26: after the callback of the credential refresh timer has run and     *)
(* asked for credentials or applied them, the renderer does not stay       *)
(* connected with nothing pending: it is not CONNECTED any more, or a      *)
(* refresh timer or a retry timer is pending.                              *)
(***************************************************************************)
RefreshAttempted == obs.op = "refreshFire" /\ (obs.fetches > 0 \/ obs.applies > 0)

C26_RefreshFailureIsHandled ==
    RefreshAttempted /\ Connected(ui)
        => \E i \in DOMAIN timers : timers[i].kind \in {"refresh", "retry"}

(***************************************************************************)
(* C27: whenever the interval's callback finds the proxy working,          *)
(* afterwards proxyRetryCount is 0 and the stored proxy config carries no  *)
(* lastError and no retryCount, whatever was recorded before.              *)
(***************************************************************************)
\* The step is the interval's callback, run with these answers, and its
\* checkProxyStatus() answered true.
MonitorFoundHealthy(env, again) ==
    /\ main.monitoring
    /\ now >= main.nextCheck
    /\ now' = now
    /\ main.proxyConfig # Null
    /\ main.proxyConfig[1].enabled
    /\ checkProxyStatus(main, now, env, again).ret
    /\ main' = intervalFired(monitorCallback(main, now, env, again), main.nextCheck)

ErrorStateCleared(m) ==
    /\ m.proxyRetryCount = 0
    /\ m.proxyConfig # Null
    /\ m.proxyConfig[1].lastError = Null
    /\ m.proxyConfig[1].retryCount = 0

C27_HealthyClearsError ==
    [][\A env \in CheckEnvs(main, now) : \A again \in Rechecks(main, now, env) :
           MonitorFoundHealthy(env, again) => ErrorStateCleared(main')]_vars

SwitchedServer ==
    /\ obs'.op = "connectionLost"
    /\ ui.currentServer # Null
    /\ ui'.currentServer # ui.currentServer

AuthIndicationHeard ==
    /\ obs'.op = "connectionLost"
    /\ Connected(ui)
    /\ authData # Null
    /\ ui.credentialFailures < maxCredentialFailures

ReappliedWithSuccess ==
    /\ obs.op \in {"retryFire", "refreshFire"}
    /\ obs.applies > 0
    /\ obs.refreshDelay > 0

C32_LostSentOnce ==
    [][Len(main'.sent) > Len(main.sent) => main.monitoring]_vars

(***************************************************************************)
(* C33: in every state of the main process, a stored proxy config with     *)
(* enabled = true implies that the health-check interval is running.       *)
(***************************************************************************)
C33_EnabledMeansMonitored ==
    (main.proxyConfig # Null /\ main.proxyConfig[1].enabled) => main.monitoring

(***************************************************************************)
(* C34: once a connect, disconnect, retry or failure-handling operation    *)
(* has completed, isConnected is true iff connectionState is CONNECTED.    *)
(***************************************************************************)
OperationCompleted ==
    /\ obs.op \in {"connect", "connectApplied", "connectRefused", "disconnect",
                    "retryFire", "refreshFire", "connectionTimeout", "connectionLost"}
    /\ connectTask = Null
    /\ inFlight = << >>

C34_StatusRepresentationsAgree ==
    OperationCompleted => (ui.isConnected <=> ui.connectionState = "CONNECTED")

(***************************************************************************)
(* C35: at any time at most one retry timer is pending, and the            *)
(* retryTimeout handle refers to every retry timer that is pending, so     *)
(* that clearTimers() cancels it.                                          *)
(***************************************************************************)
RetryTimers == SelectSeq(timers, LAMBDA x : x.kind = "retry")

DidFailLoadStep ==
    /\ main.proxyConfig # Null
    /\ main'.calls = main.calls + 1
    /\ main' = onDidFailLoad(Received(main), now)

C36_LastErrorIsLatest ==
    [][DidFailLoadStep =>
           /\ main'.proxyConfig[1].lastError =
                  Some(ProxyError("network_error", "Network connection lost", TRUE))
           /\ main'.proxyConfig[1].retryCount = main.proxyConfig[1].retryCount + 1]_vars

(***************************************************************************)
(* C37: a health check made while the most recent answer of the directory  *)
(* about the selected server was "not operational" does not report the     *)
(* proxy as working; checked on a check that follows, inside the           *)
(* rate-limit window, the check in which the directory gave that answer.   *)
(***************************************************************************)
DirectoryJustSaidDown ==
    /\ main.check.made
    /\ main.check.error = Some(ProxyError("logical_error", "Server unavailable", TRUE))
    /\ now - main.lastLogicalCheck < LOGICAL_CHECK_INTERVAL

CheckedAgain ==
    /\ now' = now
    /\ main'.check.made
    /\ main'.proxyConfig # Null
    /\ main'.proxyConfig[1].serverId # Null
    /\ main'.lastLogicalCheck = main.lastLogicalCheck

MaxAutoElapsed == 3000
AutoTimeStep == 1000
MaxAutoStarts == 2

AutoConnectSettings ==
    { [enabled |-> FALSE, serverId |-> Some("s1")],
      [enabled |-> TRUE,  serverId |-> Null],
      [enabled |-> TRUE,  serverId |-> Some("s1")] }

AutoTask(at, auth, bearer, current) ==
    [kind |-> "autoConnect", at |-> at, authData |-> auth, bearer |-> bearer,
     current |-> current]

\* handleAutoConnect as far as the await of refreshAuthToken's request.
handleAutoConnect(auth, autoConnect) ==
    IF ~autoConnect.enabled \/ autoConnect.serverId = Null
    THEN << >>
    ELSE IF auth = Null
         THEN << >>
         ELSE <<AutoTask("refresh", auth[1], Null, Null)>>

\* refreshAuthToken's request is answered: saveAuthData(newAuthData) or
\* clearAuthData(); when it answers true the server list is asked for.
autoConnectRefreshed(task, ok) ==
    IF ok THEN <<[task EXCEPT !.at = "servers"]>> ELSE << >>

\* The server list is there: when the server is in it and online, the request
\* for proxy credentials is sent with 'Bearer ${authData.accessToken}'.
autoConnectServers(task, auth, online) ==
    IF online
    THEN <<[task EXCEPT !.at = "exchange",
                        !.bearer = Some(task.authData.accessToken),
                        !.current = auth]>>
    ELSE << >>

\* The exchange is answered: with response.ok and Code 1000 the proxy is set.
autoConnectExchanged(m, t, ok, pair, setOk) ==
    IF ok
    THEN setSystemProxy(m, t, [host |-> ServerList[1].host, port |-> ServerList[1].port,
                               username |-> pair.username, password |-> pair.password,
                               serverId |-> Null, bypassList |-> {}],
                        [killSwitch |-> FALSE], setOk).m
    ELSE m

InitAutoConnect ==
    /\ now = MainEpoch
    /\ cachedCredentials = Null
    /\ lastCredentialCheck = 0
    /\ credCall = NoCall
    /\ InitBackoffIdle
    /\ InitMainIdle
    /\ timers = << >>
    /\ connectTask = Null
    /\ inFlight = << >>
    /\ obs = InitObs
    /\ authData \in {Null, Some(AuthConfig(MainEpoch - TokenExpiresIn * 1000)),
                     Some(AuthConfig(MainEpoch - AutoTimeStep))}
    /\ ui = [isConnected |-> FALSE, currentServer |-> Null,
             connectionState |-> "DISCONNECTED", retryAttempts |-> 0,
             lastRetryTime |-> 0, credentialFailures |-> 0,
             signInShown |-> (authData = Null \/ isTokenExpired(authData[1].expiresAt, now))]

\* app.whenReady(): this.handleAutoConnect()
AutoConnectReady ==
    /\ main.calls < MaxAutoStarts
    /\ inFlight = << >>
    /\ \E autoConnect \in AutoConnectSettings :
           inFlight' = handleAutoConnect(authData, autoConnect)
    /\ main' = Received(main)
    /\ UNCHANGED <<now, credVars, backoff, ui, timers, authData, connectTask, obs>>

\* The identity provider answers refreshAuthToken's request; a token is named
\* by the time it was issued at.
AutoConnectRefreshed ==
    /\ inFlight # << >>
    /\ inFlight[1].kind = "autoConnect"
    /\ inFlight[1].at = "refresh"
    /\ \E ok \in BOOLEAN :
           /\ authData' = IF authData = Null THEN authData
                          ELSE IF ok THEN Some(AuthConfig(now)) ELSE Null
           /\ inFlight' = autoConnectRefreshed(inFlight[1], ok /\ authData # Null)
    /\ UNCHANGED <<now, credVars, backoff, ui, timers, connectTask, obs, main>>

AutoConnectServers ==
    /\ inFlight # << >>
    /\ inFlight[1].kind = "autoConnect"
    /\ inFlight[1].at = "servers"
    /\ \E online \in BOOLEAN :
           inFlight' = autoConnectServers(inFlight[1], authData, online)
    /\ UNCHANGED <<now, credVars, backoff, ui, timers, authData, connectTask, obs, main>>

AutoConnectExchanged ==
    /\ inFlight # << >>
    /\ inFlight[1].kind = "autoConnect"
    /\ inFlight[1].at = "exchange"
    /\ \E ok \in BOOLEAN, pair \in CredPairs, setOk \in BOOLEAN :
           main' = autoConnectExchanged(main, now, ok, pair, setOk)
    /\ inFlight' = << >>
    /\ UNCHANGED <<now, credVars, backoff, ui, timers, authData, connectTask, obs>>

\* The application ends and is started again; its calls end with it.
AutoConnectRestart ==
    /\ main.calls > 0
    /\ main.calls < MaxAutoStarts
    /\ \E cleared \in BOOLEAN : main' = [restart(main, cleared) EXCEPT !.calls = main.calls]
    /\ inFlight' = << >>
    /\ UNCHANGED <<now, credVars, backoff, ui, timers, authData, connectTask, obs>>

AutoAdvanceTime ==
    /\ now + AutoTimeStep <= MainEpoch + MaxAutoElapsed
    /\ now' = now + AutoTimeStep
    /\ main' = [main EXCEPT !.check = NoCheck]
    /\ UNCHANGED <<credVars, backoff, uiVars>>

NextAutoConnect ==
    \/ AutoConnectReady
    \/ AutoConnectRefreshed
    \/ AutoConnectServers
    \/ AutoConnectExchanged
    \/ AutoConnectRestart
    \/ AutoAdvanceTime

SpecAutoConnect == InitAutoConnect /\ [][NextAutoConnect]_vars

(***************************************************************************)
(* C38: the request with which auto-connect exchanges for proxy            *)
(* credentials carries the access token of the session that is stored     *)
(* once refreshAuthToken has succeeded, never the one read before.         *)
(***************************************************************************)
ExchangeSent(task) == task.kind = "autoConnect" /\ task.at = "exchange"

C38_ExchangeUsesRefreshedToken ==
    \A i \in DOMAIN inFlight :
        ExchangeSent(inFlight[i]) =>
            /\ inFlight[i].current # Null
            /\ inFlight[i].bearer = Some(inFlight[i].current[1].accessToken)

(***************************************************************************)
(* Specification SpecApiRequest: ProtonVPNAPI.request and the calls it     *)
(* makes of itself, directly (a retry, retryCount + 1) and through         *)
(* handleUnauthorized (a new call for '/auth/refresh', retryCount 0).      *)
(* inFlight is the stack of the calls of request, the last one awaiting    *)
(* the response to its HTTP request, each one below it awaiting the call   *)
(* above in its handleUnauthorized.  sent is not of the program: it counts *)
(* the HTTP requests sent since the call at the bottom was made.           *)
(***************************************************************************)
MAX_RETRIES == 3
MaxRequests == 17

\* What an HTTP request meets: a 2xx response whose body has Code 1000 and
\* data.token, another response that is none of 401, 429 or 5xx, a 401, a 429,
\* a 5xx, or no response that can be read (fetch or response.json() throws).
ApiOutcomes == {"token", "other", "http401", "http429", "http5xx", "error"}

ApiCall(endpoint, retryCount, sent) ==
    [kind |-> "request", endpoint |-> endpoint, retryCount |-> retryCount, sent |-> sent]

ApiDone(result, sent) == [kind |-> "done", result |-> result, sent |-> sent]

ApiTop(stack) == stack[Len(stack)]
ApiRest(stack) == SubSeq(stack, 1, Len(stack) - 1)

\* return ProtonVPNAPI.request(endpoint, options, retryCount + 1)
requestAgain(stack, auth, sent) ==
    [stack |-> Append(ApiRest(stack),
                      ApiCall(ApiTop(stack).endpoint, ApiTop(stack).retryCount + 1, sent + 1)),
     auth  |-> auth]

\* The call on top of the stack returns result ("token": a body with Code 1000
\* and data.token; "other": another body) or throws ("throw").  The call below
\* is in handleUnauthorized: with the token it saves it and answers true, and
\* the call is made again; otherwise it answers false and the call, whose
\* response is a 401, returns that response's body.
RECURSIVE requestReturns(_, _, _, _)
requestReturns(stack, auth, result, sent) ==
    IF stack = << >>
    THEN [stack |-> <<ApiDone(result, sent)>>, auth |-> auth]
    ELSE IF result = "token"
         THEN requestAgain(stack, Some(AuthConfig(MainEpoch)), sent)
         ELSE requestReturns(ApiRest(stack), auth, "other", sent)

\* handleUnauthorized as far as the await of its request.
apiHandleUnauthorized(stack, auth, sent) ==
    IF auth = Null
    THEN requestReturns(ApiRest(stack), auth, "other", sent)
    ELSE [stack |-> Append(stack, ApiCall("refresh", 0, sent + 1)), auth |-> auth]

\* request from the response to its HTTP request on.
request(stack, auth, outcome) ==
    IF outcome = "error"
    THEN IF ApiTop(stack).retryCount < MAX_RETRIES
         THEN requestAgain(stack, auth, ApiTop(stack).sent)
         ELSE requestReturns(ApiRest(stack), auth, "throw", ApiTop(stack).sent)
    ELSE IF outcome = "http401" /\ ApiTop(stack).retryCount < MAX_RETRIES
    THEN apiHandleUnauthorized(stack, auth, ApiTop(stack).sent)
    ELSE IF outcome \in {"http429", "http5xx"} /\ ApiTop(stack).retryCount < MAX_RETRIES
    THEN requestAgain(stack, auth, ApiTop(stack).sent)
    ELSE requestReturns(ApiRest(stack), auth,
                        IF outcome = "token" THEN "token" ELSE "other",
                        ApiTop(stack).sent)

InitApiRequest ==
    /\ now = MainEpoch
    /\ cachedCredentials = Null
    /\ lastCredentialCheck = 0
    /\ credCall = NoCall
    /\ InitBackoffIdle
    /\ InitMainIdle
    /\ timers = << >>
    /\ connectTask = Null
    /\ inFlight = << >>
    /\ obs = InitObs
    /\ authData \in {Null, Some(AuthConfig(MainEpoch - AutoTimeStep))}
    /\ ui = [isConnected |-> FALSE, currentServer |-> Null,
             connectionState |-> "DISCONNECTED", retryAttempts |-> 0,
             lastRetryTime |-> 0, credentialFailures |-> 0,
             signInShown |-> (authData = Null)]

\* getServers(): this.request('/servers'), while no call is being made.
ApiRequestStart ==
    /\ inFlight # << >> => ApiTop(inFlight).kind = "done"
    /\ inFlight' = <<ApiCall("servers", 0, 1)>>
    /\ UNCHANGED <<now, credVars, backoff, ui, timers, authData, connectTask, obs, main>>

\* The HTTP request of the call on top of the stack is answered, or fails.
ApiRequestAnswered ==
    /\ inFlight # << >>
    /\ ApiTop(inFlight).kind = "request"
    /\ \E outcome \in ApiOutcomes :
           /\ ApiTop(request(inFlight, authData, outcome).stack).sent <= MaxRequests
           /\ inFlight' = request(inFlight, authData, outcome).stack
           /\ authData' = request(inFlight, authData, outcome).auth
    /\ UNCHANGED <<now, credVars, backoff, ui, timers, connectTask, obs, main>>

NextApiRequest == ApiRequestStart \/ ApiRequestAnswered

SpecApiRequest == InitApiRequest /\ [][NextApiRequest]_vars

(***************************************************************************)
(* C39: a call of ProtonVPNAPI.request sends a bounded number of HTTP      *)
(* requests whatever they meet.  With at most MAX_RETRIES retries per call *)
(* and a token refresh before each retry after a 401, itself a call with   *)
(* at most MAX_RETRIES retries, that is at most                            *)
(* (MAX_RETRIES + 1) + MAX_RETRIES * (MAX_RETRIES + 1) requests.           *)
(***************************************************************************)
RequestCeiling == (MAX_RETRIES + 1) + MAX_RETRIES * (MAX_RETRIES + 1)

C39_RequestsAreBounded ==
    inFlight # << >> => ApiTop(inFlight).sent <= RequestCeiling

(***************************************************************************)
(* C40: a save of the proxy config changes the stored                      *)
(* lastCredentialRefresh only when the credentials change: with the        *)
(* username and password that are stored the timestamp stays as it is,    *)
(* with other ones, or with nothing stored, it becomes the current time.   *)
(* The store's entry is written by saveProxyConfig alone, so every step    *)
(* that leaves an entry in the store is looked at.                         *)
(***************************************************************************)
SameCredentialsStored ==
    /\ main.proxyConfig # Null
    /\ main'.proxyConfig # Null
    /\ main'.proxyConfig[1].username = main.proxyConfig[1].username
    /\ main'.proxyConfig[1].password = main.proxyConfig[1].password

OtherCredentialsStored ==
    /\ main'.proxyConfig # Null
    /\ \/ main.proxyConfig = Null
       \/ main'.proxyConfig[1].username # main.proxyConfig[1].username
       \/ main'.proxyConfig[1].password # main.proxyConfig[1].password

C40_TimestampFollowsCredentials ==
    [][/\ SameCredentialsStored =>
              main'.proxyConfig[1].lastCredentialRefresh =
                  main.proxyConfig[1].lastCredentialRefresh
       /\ OtherCredentialsStored =>
              main'.proxyConfig[1].lastCredentialRefresh = Some(now)]_vars

====
